----------------------------- MODULE DiskProofs -----------------------------
(***************************************************************************)
(* What is on disk, for every set of generations, of runs, of processes    *)
(* and of tasks: the installation prefix (Install), the files of finished  *)
(* runs (Retention), the definition and its copies (WorkspaceStore), and   *)
(* what the definition makes execute (ProjectTrust).                       *)
(***************************************************************************)
EXTENDS Install, Retention, WorkspaceStore, ProjectTrust, FiniteSetTheorems, TLAPS

-----------------------------------------------------------------------------
(* The installation prefix.  InstallSafety is not inductive: that recovery *)
(* can finish or undo what a crash left depends on where each command was  *)
(* when it stopped, so the invariant says what every step of an activation *)
(* has done, and what holds of the links once nobody is at work.           *)

J == journal[1]
Transaction == [before : States, target : OptGeneration]

\* The steps before the journal is written, and those after.
Staging == {"stage", "inventory", "staged", "journal"}
Activating == {"link", "launcher", "health", "commit", "close", "drop_launcher",
               "drop_link", "back", "relink", "relaunch"}

\* What the inventory names is there, and the launcher leads to it.
InventorySound ==
    /\ \A g \in state.generations : directory[g] # "none"
    /\ state.active # NoGeneration => state.active \in state.generations
    /\ launcher => current \in state.generations

StagingSound ==
    /\ op.at = "idle" => op = AtRest
    /\ journal = <<>> => op.at \notin Activating /\ LinksMatch(state)
    /\ op.at \in Staging =>
          /\ journal = <<>> /\ op.target \in Generations
          /\ Version[op.target] >= state.floor
          /\ op.at = "stage" => directory[op.target] = "none"
          /\ op.at \in {"staged", "journal"} => op.target \in state.generations
          /\ op.at = "journal" => state.active # op.target

\* The inventory is the one before or the committed one; the link is one of
\* the two, and the target is not an older release.
JournalSound ==
    journal # <<>> =>
      /\ state = J.before \/ state = Committed(J.before, J.target)
      /\ current \in {J.before.active, J.target}
      /\ J.target # NoGeneration =>
            /\ J.target \in state.generations /\ J.target # J.before.active
            /\ Version[J.target] >= J.before.floor
      /\ J.before.active # NoGeneration => J.before.active \in state.generations
      /\ Finished(J) => LinksMatch(state)
      /\ J.before.active # NoGeneration /\ J.target # NoGeneration => launcher

\* Where each step of an activation, an uninstall or an undoing stands.
StepSound ==
    op.at \in Activating =>
      /\ journal # <<>> /\ op.target = J.target
      /\ op.at # "close" => state = J.before
      /\ op.at \in {"link", "launcher", "health"} => J.target # NoGeneration
      /\ op.at \in {"launcher", "health"} => current = J.target
      /\ op.at = "health" => launcher
      /\ op.at = "commit" => current = J.target /\ launcher = (J.target # NoGeneration)
      /\ op.at = "close" => LinksMatch(state)
      /\ op.at \in {"drop_launcher", "drop_link"} =>
            J.target = NoGeneration \/ J.before.active = NoGeneration
      /\ op.at = "drop_link" => ~launcher
      /\ op.at \in {"relink", "relaunch"} => J.before.active # NoGeneration
      /\ op.at = "relaunch" => current = J.before.active
      /\ op.at = "back" =>
            current = J.before.active /\ launcher = (J.before.active # NoGeneration)

InstallInv ==
    /\ TypeOK
    /\ InventorySound /\ StagingSound /\ JournalSound /\ StepSound

LEMMA CommittedFields ==
    ASSUME NEW s \in States, NEW t \in OptGeneration
    PROVE  /\ Committed(s, t) \in States
           /\ Committed(s, t).active = t
           /\ Committed(s, t).generations = s.generations
           /\ Committed(s, t).floor >= s.floor
<1>1. /\ s.floor \in {0} \cup {Version[g] : g \in Generations}
      /\ t # NoGeneration => t \in Generations
  BY DEF States, OptGeneration
<1>2. \A f \in {0} \cup {Version[g] : g \in Generations} : f \in Nat
  BY InstallAssumption
<1> DEFINE f == IF t # NoGeneration /\ Version[t] > s.floor THEN Version[t] ELSE s.floor
<1>3. f \in {0} \cup {Version[g] : g \in Generations} /\ f >= s.floor
  <2>1. CASE t # NoGeneration /\ Version[t] > s.floor
    <3>1. f = Version[t] /\ t \in Generations
      BY <1>1, <2>1
    <3>2. Version[t] \in Nat /\ s.floor \in Nat
      BY <1>1, <1>2, <3>1
    <3> QED BY <2>1, <3>1, <3>2
  <2>2. CASE ~(t # NoGeneration /\ Version[t] > s.floor)
    <3>1. f = s.floor /\ s.floor \in Nat
      BY <1>1, <1>2, <2>2
    <3> QED BY <1>1, <3>1
  <2> QED BY <2>1, <2>2
<1>4. Committed(s, t) = [s EXCEPT !.active = t, !.floor = f]
  BY DEF Committed
<1> HIDE DEF f
<1> QED BY <1>3, <1>4 DEF States

\* The journal is absent or holds one transaction.
LEMMA JournalShape ==
    ASSUME TypeOK
    PROVE  /\ journal = <<>> \/ (journal = <<J>> /\ J \in Transaction)
           /\ \A j : <<j>>[1] = j
           /\ \A j : <<j>> # <<>>
BY DEF TypeOK, Transaction, J

\* While the inventory is the one before, the transaction is not finished:
\* it would have to be one that changes nothing.
LEMMA Unfinished ==
    ASSUME TypeOK, journal # <<>>, state = J.before, Finished(J)
    PROVE  J.before.active = J.target
<1>1. J \in Transaction
  BY JournalShape
<1>2. J.before \in States /\ J.target \in OptGeneration
  BY <1>1 DEF Transaction
<1> QED BY <1>2, CommittedFields DEF Finished

LEMMA InstallInvInit == Init => InstallInv
<1> SUFFICES ASSUME Init PROVE InstallInv
  OBVIOUS
<1>1. TypeOK
  BY DEF Init, TypeOK, States, OptGeneration, AtRest
<1>2. InventorySound
  BY DEF Init, InventorySound
<1>3. StagingSound /\ JournalSound /\ StepSound
  BY DEF Init, AtRest, StagingSound, JournalSound, StepSound, Staging, Activating, LinksMatch
<1> QED BY <1>1, <1>2, <1>3 DEF InstallInv

\* Where a command stands: its operation, with the target it had or a new one.
LEMMA OpTyped ==
    ASSUME TypeOK,
           NEW at \in {"idle", "stage", "inventory", "staged", "journal", "link",
                       "launcher", "health", "commit", "close", "drop_launcher",
                       "drop_link", "back", "relink", "relaunch"}
    PROVE  /\ [op EXCEPT !.at = at].at = at
           /\ [op EXCEPT !.at = at].target = op.target
           /\ op.target \in OptGeneration
           /\ [op EXCEPT !.at = at] \in
                [at : {"idle", "stage", "inventory", "staged", "journal", "link",
                       "launcher", "health", "commit", "close", "drop_launcher",
                       "drop_link", "back", "relink", "relaunch"},
                 target : OptGeneration]
BY DEF TypeOK

LEMMA BeginInstallStep ==
    ASSUME InstallInv, NEW g \in Generations, NEW program \in Binaries, BeginInstall(g, program)
    PROVE  InstallInv'
<1>1. /\ UNCHANGED <<state, journal, current, launcher, directory>>
      /\ journal = <<>> /\ LinksMatch(state) /\ Version[g] >= state.floor
  BY DEF BeginInstall, Upgrades
<1>2. /\ op' \in [at : {"stage", "inventory", "staged"}, target : {g}]
      /\ op'.at = "staged" => g \in state.generations
      /\ op'.at = "stage" => directory[g] = "none"
  BY DEF BeginInstall
<1>3. op'.target = g /\ op'.at \in {"stage", "inventory", "staged"} /\ op' # AtRest
  BY <1>2 DEF AtRest
<1>4. TypeOK'
  BY <1>1, <1>2 DEF InstallInv, TypeOK, OptGeneration
<1>5. InventorySound'
  BY <1>1 DEF InstallInv, InventorySound
<1>6. StagingSound'
  BY <1>1, <1>2, <1>3 DEF StagingSound, Staging, Activating, LinksMatch
<1>7. JournalSound' /\ StepSound'
  BY <1>1, <1>3 DEF JournalSound, StepSound, Activating
<1> QED BY <1>4, <1>5, <1>6, <1>7 DEF InstallInv

LEMMA StageStep ==
    ASSUME InstallInv, Stage
    PROVE  InstallInv'
<1>1. /\ op.at = "stage" /\ UNCHANGED <<state, journal, current, launcher>>
      /\ op.target \in Generations /\ Version[op.target] >= state.floor
      /\ journal = <<>> /\ LinksMatch(state)
  BY DEF Stage, InstallInv, StagingSound, Staging
<1>2. op' = [op EXCEPT !.at = "inventory"] /\ op'.at = "inventory" /\ op'.target = op.target
  BY OpTyped DEF Stage, Goto, InstallInv
<1>3. /\ directory' \in [Generations -> {"none", "sealed", "damaged"}]
      /\ \A g \in Generations : directory[g] # "none" => directory'[g] # "none"
  BY DEF Stage, InstallInv, TypeOK
<1>4. TypeOK'
  BY <1>1, <1>2, <1>3, OpTyped DEF InstallInv, TypeOK
<1>5. InventorySound'
  BY <1>1, <1>3 DEF InstallInv, InventorySound, TypeOK, States
<1>6. StagingSound' /\ JournalSound' /\ StepSound'
  BY <1>1, <1>2 DEF StagingSound, JournalSound, StepSound, Staging, Activating, LinksMatch
<1> QED BY <1>4, <1>5, <1>6 DEF InstallInv

LEMMA WriteInventoryStep ==
    ASSUME InstallInv, WriteInventory
    PROVE  InstallInv'
<1>1. /\ op.at = "inventory" /\ UNCHANGED <<journal, current, launcher, directory>>
      /\ op.target \in Generations /\ Version[op.target] >= state.floor
      /\ journal = <<>> /\ LinksMatch(state) /\ directory[op.target] = "sealed"
  BY DEF WriteInventory, InstallInv, StagingSound, Staging, Sealed
<1>2. op' = [op EXCEPT !.at = "staged"] /\ op'.at = "staged" /\ op'.target = op.target
  BY OpTyped DEF WriteInventory, Goto, InstallInv
<1>3. state \in States /\ state' = [state EXCEPT !.generations = @ \cup {op.target}]
  BY DEF WriteInventory, InstallInv, TypeOK
<1>4. /\ state' \in States /\ state'.active = state.active /\ state'.floor = state.floor
      /\ state'.generations = state.generations \cup {op.target}
  BY <1>1, <1>3 DEF States
<1>5. TypeOK'
  BY <1>1, <1>2, <1>4, OpTyped DEF InstallInv, TypeOK
<1>6. InventorySound'
  BY <1>1, <1>4 DEF InstallInv, InventorySound
<1>7. StagingSound' /\ JournalSound' /\ StepSound'
  BY <1>1, <1>2, <1>4 DEF StagingSound, JournalSound, StepSound, Staging, Activating, LinksMatch
<1> QED BY <1>5, <1>6, <1>7 DEF InstallInv

LEMMA StagedHealthyStep ==
    ASSUME InstallInv, StagedHealthy
    PROVE  InstallInv'
<1>1. /\ op.at = "staged" /\ UNCHANGED <<state, journal, current, launcher, directory>>
      /\ op.target \in Generations /\ Version[op.target] >= state.floor
      /\ op.target \in state.generations
      /\ journal = <<>> /\ LinksMatch(state)
  BY DEF StagedHealthy, InstallInv, StagingSound, Staging
<1>2. \/ op' = AtRest
      \/ op' = [op EXCEPT !.at = "journal"] /\ state.active # op.target
  BY DEF StagedHealthy, Goto, Return
<1>3. \/ op' = AtRest /\ op'.at = "idle"
      \/ op'.at = "journal" /\ op'.target = op.target /\ state.active # op.target
  BY <1>2, OpTyped DEF AtRest, InstallInv
<1>4. TypeOK'
  <2>1. op' = AtRest => op' \in [at : {"idle"}, target : OptGeneration]
    BY DEF AtRest, OptGeneration
  <2> QED BY <1>1, <1>2, <2>1, OpTyped DEF InstallInv, TypeOK
<1>5. InventorySound'
  BY <1>1 DEF InstallInv, InventorySound
<1>6. StagingSound' /\ JournalSound' /\ StepSound'
  BY <1>1, <1>3 DEF StagingSound, JournalSound, StepSound, Staging, Activating, LinksMatch
<1> QED BY <1>4, <1>5, <1>6 DEF InstallInv

\* The journal holds the inventory before, and the links are still its own.
LEMMA JournalOpened ==
    ASSUME InstallInv, UNCHANGED <<state, current, launcher, directory>>,
           journal = <<>>, LinksMatch(state),
           NEW t \in OptGeneration, NEW at \in {"link", "drop_launcher"},
           journal' = <<[before |-> state, target |-> t]>>, op' = [at |-> at, target |-> t],
           IF at = "link"
           THEN /\ t \in state.generations /\ t # state.active /\ Version[t] >= state.floor
                /\ t # NoGeneration
           ELSE t = NoGeneration
    PROVE  InstallInv'
<1>1. /\ J' = [before |-> state, target |-> t] /\ journal' # <<>>
      /\ J'.before = state /\ J'.target = t /\ op'.at = at /\ op'.target = t
      /\ state \in States
  BY DEF J, InstallInv, TypeOK
<1>2. TypeOK'
  <2>1. journal' \in {<<j>> : j \in [before : States, target : OptGeneration]}
    BY <1>1
  <2> QED BY <2>1 DEF InstallInv, TypeOK
<1>3. InventorySound'
  BY DEF InstallInv, InventorySound
<1>4. StagingSound'
  BY <1>1 DEF StagingSound, Staging
<1>5. JournalSound'
  BY <1>1 DEF JournalSound, InstallInv, InventorySound, LinksMatch
<1>6. StepSound'
  BY <1>1 DEF StepSound
<1> QED BY <1>2, <1>3, <1>4, <1>5, <1>6 DEF InstallInv

LEMMA WriteJournalStep ==
    ASSUME InstallInv, WriteJournal
    PROVE  InstallInv'
<1>1. /\ op.at = "journal" /\ op.target \in Generations /\ Version[op.target] >= state.floor
      /\ op.target \in state.generations /\ state.active # op.target
      /\ journal = <<>> /\ LinksMatch(state)
  BY DEF WriteJournal, InstallInv, StagingSound, Staging
<1>2. op' = [at |-> "link", target |-> op.target]
  BY DEF WriteJournal, Goto, InstallInv, TypeOK
<1>3. op.target \in OptGeneration /\ op.target # NoGeneration
  BY <1>1, InstallAssumption DEF OptGeneration
<1> QED BY <1>1, <1>2, <1>3, JournalOpened DEF WriteJournal

LEMMA BeginUninstallStep ==
    ASSUME InstallInv, BeginUninstall
    PROVE  InstallInv'
<1>1. NoGeneration \in OptGeneration
  BY DEF OptGeneration
<1> QED BY <1>1, JournalOpened DEF BeginUninstall

\* What holds while the journal is there.
LEMMA Journaled ==
    ASSUME InstallInv, journal # <<>>
    PROVE  /\ J.before \in States /\ J.target \in OptGeneration
           /\ state = J.before \/ state = Committed(J.before, J.target)
           /\ state.generations = J.before.generations
           /\ current \in {J.before.active, J.target}
           /\ J.target # NoGeneration =>
                 /\ J.target \in state.generations /\ J.target # J.before.active
                 /\ Version[J.target] >= J.before.floor
           /\ J.before.active # NoGeneration => J.before.active \in state.generations
           /\ Finished(J) => LinksMatch(state)
           /\ J.before.active # NoGeneration /\ J.target # NoGeneration => launcher
           /\ launcher => current # NoGeneration
           /\ Committed(J.before, J.target) \in States
           /\ Committed(J.before, J.target).active = J.target
           /\ Committed(J.before, J.target).generations = J.before.generations
           /\ state = J.before /\ Finished(J) => J.before.active = J.target
<1>1. J \in Transaction /\ TypeOK /\ JournalSound /\ InventorySound
  BY JournalShape DEF InstallInv
<1>2. J.before \in States /\ J.target \in OptGeneration
  BY <1>1 DEF Transaction
<1>3. NoGeneration \notin state.generations
  BY <1>1, InstallAssumption DEF TypeOK, States
<1> QED BY <1>1, <1>2, <1>3, CommittedFields, Unfinished DEF JournalSound, InventorySound

\* A step of an activation, an uninstall or an undoing: the inventory stays
\* one of the two, the link one of the two, and the launcher leads somewhere.
LEMMA JournalKept ==
    ASSUME InstallInv, journal # <<>>, UNCHANGED <<journal, directory>>,
           state' \in {J.before, Committed(J.before, J.target)},
           current' \in {J.before.active, J.target},
           launcher' \in BOOLEAN, launcher' => current' # NoGeneration,
           J.before.active # NoGeneration /\ J.target # NoGeneration => launcher',
           Finished(J)' => LinksMatch(state)',
           op' = AtRest \/ (op'.at \in Activating /\ op' \in [at : Activating, target : OptGeneration]),
           StepSound'
    PROVE  InstallInv'
<1>1. /\ J.before \in States /\ J.target \in OptGeneration
      /\ state.generations = J.before.generations
      /\ J.target # NoGeneration =>
            /\ J.target \in state.generations /\ J.target # J.before.active
            /\ Version[J.target] >= J.before.floor
      /\ J.before.active # NoGeneration => J.before.active \in state.generations
      /\ Committed(J.before, J.target) \in States
      /\ Committed(J.before, J.target).active = J.target
      /\ Committed(J.before, J.target).generations = J.before.generations
  BY Journaled
<1>2. /\ J' = J /\ state' \in States /\ state'.generations = state.generations
      /\ state'.active \in {J.before.active, J.target}
  BY <1>1 DEF J
<1>3. TypeOK'
  <2>1. op' \in [at : {"idle", "stage", "inventory", "staged", "journal", "link",
                     "launcher", "health", "commit", "close", "drop_launcher",
                     "drop_link", "back", "relink", "relaunch"},
                 target : OptGeneration]
    BY DEF AtRest, Activating, OptGeneration
  <2>2. current' \in OptGeneration
    BY <1>1 DEF States
  <2> QED BY <1>2, <2>1, <2>2 DEF InstallInv, TypeOK
<1>4. InventorySound'
  BY <1>1, <1>2 DEF InstallInv, InventorySound
<1>5. StagingSound'
  <2>1. op'.at \notin Staging /\ (op'.at = "idle" => op' = AtRest)
    BY DEF AtRest, Activating, Staging
  <2> QED BY <2>1 DEF StagingSound
<1>6. JournalSound'
  <2>1. Committed(J.before, J.target)' = Committed(J.before, J.target)
    BY <1>2 DEF Committed
  <2> QED BY <1>1, <1>2, <2>1 DEF JournalSound
<1> QED BY <1>3, <1>4, <1>5, <1>6 DEF InstallInv

\* What StepSound says of the step a command is at, and where it goes.
LEMMA AtStep ==
    ASSUME InstallInv, op.at \in Activating, NEW at \in Activating
    PROVE  /\ journal # <<>> /\ op.target = J.target
           /\ op.at # "close" => state = J.before
           /\ op.at \in {"link", "launcher", "health"} => J.target # NoGeneration
           /\ op.at \in {"launcher", "health"} => current = J.target
           /\ op.at = "health" => launcher
           /\ op.at = "commit" => current = J.target /\ launcher = (J.target # NoGeneration)
           /\ op.at = "close" => LinksMatch(state)
           /\ op.at \in {"drop_launcher", "drop_link"} =>
                 J.target = NoGeneration \/ J.before.active = NoGeneration
           /\ op.at = "drop_link" => ~launcher
           /\ op.at \in {"relink", "relaunch"} => J.before.active # NoGeneration
           /\ op.at = "relaunch" => current = J.before.active
           /\ op.at = "back" =>
                 current = J.before.active /\ launcher = (J.before.active # NoGeneration)
           /\ [op EXCEPT !.at = at] \in [at : Activating, target : OptGeneration]
           /\ [op EXCEPT !.at = at].at = at
           /\ [op EXCEPT !.at = at].target = op.target
           /\ launcher \in BOOLEAN
<1>1. TypeOK /\ StepSound
  BY DEF InstallInv
<1>2. op.target \in OptGeneration /\ launcher \in BOOLEAN
      /\ op \in [at : {"idle", "stage", "inventory", "staged", "journal", "link",
                     "launcher", "health", "commit", "close", "drop_launcher",
                     "drop_link", "back", "relink", "relaunch"},
                 target : OptGeneration]
  BY <1>1 DEF TypeOK
<1>3. /\ [op EXCEPT !.at = at] \in [at : Activating, target : OptGeneration]
      /\ [op EXCEPT !.at = at].at = at
      /\ [op EXCEPT !.at = at].target = op.target
  BY <1>2
<1> QED BY <1>1, <1>2, <1>3 DEF StepSound

LEMMA LinkStep ==
    ASSUME InstallInv, Link
    PROVE  InstallInv'
<1>1. /\ op.at = "link" /\ current' = op.target /\ op' = [op EXCEPT !.at = "launcher"]
      /\ UNCHANGED <<state, journal, launcher, directory>>
  BY DEF Link, Goto
<1>2. op.at \in Activating /\ "launcher" \in Activating
  BY <1>1 DEF Activating
<1>3. /\ journal # <<>> /\ op.target = J.target /\ state = J.before /\ J.target # NoGeneration
      /\ op' \in [at : Activating, target : OptGeneration]
      /\ op'.at = "launcher" /\ op'.target = op.target /\ launcher \in BOOLEAN
  BY <1>1, <1>2, AtStep
<1>4. J' = J /\ Committed(J.before, J.target)' = Committed(J.before, J.target)
  BY <1>1 DEF J, Committed
<1>5. /\ J.target # J.before.active /\ ~Finished(J)
      /\ J.before.active # NoGeneration /\ J.target # NoGeneration => launcher
  BY <1>3, Journaled
<1>6. ~Finished(J)'
  BY <1>1, <1>4, <1>5 DEF Finished
<1>7. StepSound'
  BY <1>1, <1>3, <1>4 DEF StepSound
<1> QED BY <1>1, <1>2, <1>3, <1>5, <1>6, <1>7, JournalKept

LEMMA LaunchStep ==
    ASSUME InstallInv, Launch
    PROVE  InstallInv'
<1>1. /\ op.at = "launcher" /\ launcher' = TRUE /\ op' = [op EXCEPT !.at = "health"]
      /\ UNCHANGED <<state, journal, current, directory>>
  BY DEF Launch, Goto
<1>2. op.at \in Activating /\ "health" \in Activating
  BY <1>1 DEF Activating
<1>3. /\ journal # <<>> /\ op.target = J.target /\ state = J.before /\ J.target # NoGeneration
      /\ current = J.target
      /\ op' \in [at : Activating, target : OptGeneration]
      /\ op'.at = "health" /\ op'.target = op.target
  BY <1>1, <1>2, AtStep
<1>4. J' = J /\ Committed(J.before, J.target)' = Committed(J.before, J.target)
  BY <1>1 DEF J, Committed
<1>5. J.target # J.before.active /\ ~Finished(J)
  BY <1>3, Journaled
<1>6. ~Finished(J)'
  BY <1>1, <1>4, <1>5 DEF Finished
<1>7. StepSound'
  BY <1>1, <1>3, <1>4 DEF StepSound
<1> QED BY <1>1, <1>2, <1>3, <1>6, <1>7, JournalKept

\* Only the command goes on.
LEMMA CommandMoves ==
    ASSUME InstallInv, journal # <<>>, UNCHANGED <<state, journal, current, launcher, directory>>,
           op' = AtRest \/ (op'.at \in Activating /\ op' \in [at : Activating, target : OptGeneration]),
           StepSound'
    PROVE  InstallInv'
<1>1. J' = J /\ Committed(J.before, J.target)' = Committed(J.before, J.target)
      /\ Finished(J)' = Finished(J) /\ launcher \in BOOLEAN
  BY DEF J, Committed, Finished, InstallInv, TypeOK
<1>2. /\ state \in {J.before, Committed(J.before, J.target)}
      /\ current \in {J.before.active, J.target}
      /\ launcher => current # NoGeneration
      /\ J.before.active # NoGeneration /\ J.target # NoGeneration => launcher
      /\ Finished(J) => LinksMatch(state)
  BY Journaled
<1>3. Finished(J)' => LinksMatch(state)'
  BY <1>1, <1>2 DEF LinksMatch
<1> QED BY <1>1, <1>2, <1>3, JournalKept

LEMMA LauncherHealthyStep ==
    ASSUME InstallInv, LauncherHealthy
    PROVE  InstallInv'
<1>1. /\ op.at = "health" /\ op' = [op EXCEPT !.at = "commit"]
      /\ UNCHANGED <<state, journal, current, launcher, directory>>
  BY DEF LauncherHealthy, Goto
<1>2. op.at \in Activating /\ "commit" \in Activating
  BY <1>1 DEF Activating
<1>3. /\ journal # <<>> /\ op.target = J.target /\ state = J.before /\ J.target # NoGeneration
      /\ current = J.target /\ launcher /\ launcher \in BOOLEAN
      /\ op' \in [at : Activating, target : OptGeneration]
      /\ op'.at = "commit" /\ op'.target = op.target
  BY <1>1, <1>2, AtStep
<1>4. J' = J
  BY <1>1 DEF J
<1>5. StepSound'
  BY <1>1, <1>3, <1>4 DEF StepSound
<1> QED BY <1>1, <1>3, <1>5, CommandMoves

\* The health check failed, or recover undoes what a crash left.
LEMMA Restoring ==
    ASSUME InstallInv, journal # <<>>, UNCHANGED <<state, journal, current, launcher, directory>>,
           state = J.before, J.target = NoGeneration => J.before.active # NoGeneration,
           op'.at = RestoreAt(J), op'.target = J.target
    PROVE  StepSound' /\ RestoreAt(J) \in Activating
<1>1. J' = J
  BY DEF J
<1>2. \/ RestoreAt(J) = "drop_launcher" /\ J.before.active = NoGeneration
      \/ RestoreAt(J) = "relink" /\ J.before.active # NoGeneration
  BY DEF RestoreAt
<1>3. RestoreAt(J) \in Activating
  BY <1>2 DEF Activating
<1>4. StepSound'
  BY <1>1, <1>2 DEF StepSound
<1> QED BY <1>3, <1>4

LEMMA LauncherUnhealthyStep ==
    ASSUME InstallInv, LauncherUnhealthy
    PROVE  InstallInv'
<1>1. /\ op.at = "health" /\ UNCHANGED <<state, journal, current, launcher, directory>>
      /\ op' = [op EXCEPT !.at = RestoreAt(J)] \/ op' = AtRest
  BY DEF LauncherUnhealthy, Goto, Return, J
<1>2. op.at \in Activating /\ RestoreAt(J) \in Activating
  BY <1>1 DEF Activating, RestoreAt
<1>3. journal # <<>> /\ op.target = J.target /\ state = J.before /\ J.target # NoGeneration
  BY <1>1, <1>2, AtStep
<1>4. CASE op' = AtRest
  <2>1. StepSound'
    BY <1>4 DEF StepSound, AtRest, Activating
  <2> QED BY <1>1, <1>3, <1>4, <2>1, CommandMoves
<1>5. CASE op' = [op EXCEPT !.at = RestoreAt(J)]
  <2>1. /\ op' \in [at : Activating, target : OptGeneration]
        /\ op'.at = RestoreAt(J) /\ op'.target = J.target
    BY <1>2, <1>3, <1>5, AtStep
  <2>2. StepSound'
    BY <1>1, <1>3, <2>1, Restoring
  <2> QED BY <1>1, <1>2, <1>3, <2>1, <2>2, CommandMoves
<1> QED BY <1>1, <1>4, <1>5

LEMMA WriteCommittedStep ==
    ASSUME InstallInv, WriteCommitted
    PROVE  InstallInv'
<1>1. /\ op.at = "commit" /\ op' = [op EXCEPT !.at = "close"]
      /\ state' = Committed(state, op.target)
      /\ UNCHANGED <<journal, current, launcher, directory>>
  BY DEF WriteCommitted, Goto
<1>2. op.at \in Activating /\ "close" \in Activating
  BY <1>1 DEF Activating
<1>3. /\ journal # <<>> /\ op.target = J.target /\ state = J.before
      /\ current = J.target /\ launcher = (J.target # NoGeneration)
      /\ op' \in [at : Activating, target : OptGeneration] /\ launcher \in BOOLEAN
      /\ op'.at = "close" /\ op'.target = op.target
  BY <1>1, <1>2, AtStep
<1>4. J' = J /\ state' = Committed(J.before, J.target)
  BY <1>1, <1>3 DEF J
<1>5. /\ Committed(J.before, J.target).active = J.target
      /\ launcher => current # NoGeneration
      /\ J.before.active # NoGeneration /\ J.target # NoGeneration => launcher
  BY <1>3, Journaled
<1>6. LinksMatch(state)'
  BY <1>1, <1>3, <1>4, <1>5 DEF LinksMatch
<1>7. StepSound'
  BY <1>1, <1>3, <1>4, <1>6 DEF StepSound
<1> QED BY <1>1, <1>2, <1>3, <1>4, <1>5, <1>6, <1>7, JournalKept

LEMMA RemoveJournalStep ==
    ASSUME InstallInv, RemoveJournal
    PROVE  InstallInv'
<1>1. /\ op.at = "close" /\ journal' = <<>> /\ op' = AtRest
      /\ UNCHANGED <<state, current, launcher, directory>>
  BY DEF RemoveJournal, Return
<1>2. LinksMatch(state)
  BY <1>1, AtStep DEF Activating
<1>3. TypeOK'
  BY <1>1 DEF InstallInv, TypeOK, AtRest, OptGeneration
<1>4. InventorySound'
  BY <1>1 DEF InstallInv, InventorySound
<1>5. StagingSound' /\ JournalSound' /\ StepSound'
  BY <1>1, <1>2 DEF StagingSound, JournalSound, StepSound, Staging, Activating, LinksMatch, AtRest
<1> QED BY <1>3, <1>4, <1>5 DEF InstallInv

LEMMA DropLauncherStep ==
    ASSUME InstallInv, DropLauncher
    PROVE  InstallInv'
<1>1. /\ op.at = "drop_launcher" /\ launcher' = FALSE /\ op' = [op EXCEPT !.at = "drop_link"]
      /\ UNCHANGED <<state, journal, current, directory>>
  BY DEF DropLauncher, Goto
<1>2. op.at \in Activating /\ "drop_link" \in Activating
  BY <1>1 DEF Activating
<1>3. /\ journal # <<>> /\ op.target = J.target /\ state = J.before
      /\ J.target = NoGeneration \/ J.before.active = NoGeneration
      /\ op' \in [at : Activating, target : OptGeneration]
      /\ op'.at = "drop_link" /\ op'.target = op.target
  BY <1>1, <1>2, AtStep
<1>4. J' = J /\ Finished(J)' = Finished(J)
  BY <1>1 DEF J, Finished, Committed
<1>5. /\ Finished(J) => LinksMatch(state) /\ J.before.active = J.target
      /\ current \in {J.before.active, J.target} /\ state = J.before
  BY <1>3, Journaled
<1>6. Finished(J)' => LinksMatch(state)'
  BY <1>1, <1>3, <1>4, <1>5 DEF LinksMatch
<1>7. StepSound'
  BY <1>1, <1>3, <1>4 DEF StepSound
<1> QED BY <1>1, <1>2, <1>3, <1>5, <1>6, <1>7, JournalKept

LEMMA DropLinkStep ==
    ASSUME InstallInv, DropLink
    PROVE  InstallInv'
<1> DEFINE at == IF J.target = NoGeneration THEN "commit" ELSE "back"
<1>1. /\ op.at = "drop_link" /\ current' = NoGeneration /\ op' = [op EXCEPT !.at = at]
      /\ UNCHANGED <<state, journal, launcher, directory>>
  BY DEF DropLink, Goto, J
<1>2. op.at \in Activating /\ at \in Activating /\ at \in {"commit", "back"}
      /\ ((at = "commit") <=> (J.target = NoGeneration))
  BY <1>1 DEF Activating
<1> HIDE DEF at
<1>3. /\ journal # <<>> /\ op.target = J.target /\ state = J.before /\ ~launcher
      /\ J.target = NoGeneration \/ J.before.active = NoGeneration
      /\ op' \in [at : Activating, target : OptGeneration] /\ launcher \in BOOLEAN
      /\ op'.at = at /\ op'.target = op.target
  BY <1>1, <1>2, AtStep
<1>4. J' = J /\ Finished(J)' = Finished(J)
  BY <1>1 DEF J, Finished, Committed
<1>5. /\ Finished(J) => LinksMatch(state) /\ J.before.active = J.target
      /\ current \in {J.before.active, J.target}
  BY <1>3, Journaled
<1>6. Finished(J)' => LinksMatch(state)'
  BY <1>1, <1>3, <1>4, <1>5 DEF LinksMatch
<1>7. StepSound'
  BY <1>1, <1>2, <1>3, <1>4 DEF StepSound
<1> QED BY <1>1, <1>2, <1>3, <1>5, <1>6, <1>7, JournalKept

LEMMA RelinkStep ==
    ASSUME InstallInv, Relink
    PROVE  InstallInv'
<1>1. /\ op.at = "relink" /\ current' = J.before.active /\ op' = [op EXCEPT !.at = "relaunch"]
      /\ UNCHANGED <<state, journal, launcher, directory>>
  BY DEF Relink, Goto, J
<1>2. op.at \in Activating /\ "relaunch" \in Activating
  BY <1>1 DEF Activating
<1>3. /\ journal # <<>> /\ op.target = J.target /\ state = J.before
      /\ J.before.active # NoGeneration
      /\ op' \in [at : Activating, target : OptGeneration] /\ launcher \in BOOLEAN
      /\ op'.at = "relaunch" /\ op'.target = op.target
  BY <1>1, <1>2, AtStep
<1>4. J' = J /\ Finished(J)' = Finished(J)
  BY <1>1 DEF J, Finished, Committed
<1>5. /\ ~Finished(J)
      /\ J.before.active # NoGeneration /\ J.target # NoGeneration => launcher
  BY <1>3, Journaled
<1>6. StepSound'
  BY <1>1, <1>3, <1>4 DEF StepSound
<1> QED BY <1>1, <1>2, <1>3, <1>4, <1>5, <1>6, JournalKept

LEMMA RelaunchStep ==
    ASSUME InstallInv, Relaunch
    PROVE  InstallInv'
<1>1. /\ op.at = "relaunch" /\ launcher' = TRUE /\ op' = [op EXCEPT !.at = "back"]
      /\ UNCHANGED <<state, journal, current, directory>>
  BY DEF Relaunch, Goto
<1>2. op.at \in Activating /\ "back" \in Activating
  BY <1>1 DEF Activating
<1>3. /\ journal # <<>> /\ op.target = J.target /\ state = J.before
      /\ J.before.active # NoGeneration /\ current = J.before.active
      /\ op' \in [at : Activating, target : OptGeneration]
      /\ op'.at = "back" /\ op'.target = op.target
  BY <1>1, <1>2, AtStep
<1>4. J' = J /\ Finished(J)' = Finished(J)
  BY <1>1 DEF J, Finished, Committed
<1>5. ~Finished(J)
  BY <1>3, Journaled
<1>6. StepSound'
  BY <1>1, <1>3, <1>4 DEF StepSound
<1> QED BY <1>1, <1>2, <1>3, <1>4, <1>5, <1>6, JournalKept

LEMMA WriteBeforeStep ==
    ASSUME InstallInv, WriteBefore
    PROVE  InstallInv'
<1>1. /\ op.at = "back" /\ state' = J.before /\ op' = [op EXCEPT !.at = "close"]
      /\ UNCHANGED <<journal, current, launcher, directory>>
  BY DEF WriteBefore, Goto, J
<1>2. op.at \in Activating /\ "close" \in Activating
  BY <1>1 DEF Activating
<1>3. /\ journal # <<>> /\ op.target = J.target /\ state = J.before
      /\ current = J.before.active /\ launcher = (J.before.active # NoGeneration)
      /\ op' \in [at : Activating, target : OptGeneration] /\ launcher \in BOOLEAN
      /\ op'.at = "close" /\ op'.target = op.target
  BY <1>1, <1>2, AtStep
<1>4. J' = J
  BY <1>1 DEF J
<1>5. LinksMatch(state)'
  BY <1>1, <1>3 DEF LinksMatch
<1>6. StepSound'
  BY <1>1, <1>3, <1>4, <1>5 DEF StepSound
<1> QED BY <1>1, <1>2, <1>3, <1>5, <1>6, JournalKept

LEMMA BeginRecoverStep ==
    ASSUME InstallInv, BeginRecover
    PROVE  InstallInv'
<1>1. /\ op = AtRest /\ journal # <<>>
      /\ UNCHANGED <<state, journal, current, launcher, directory>>
      /\ \/ FinishAdmitted(J) /\ op' = [at |-> "close", target |-> J.target]
         \/ UndoAdmitted(J) /\ op' = [at |-> RestoreAt(J), target |-> J.target]
  BY DEF BeginRecover, J
<1>2. J.target \in OptGeneration /\ J' = J
  BY <1>1, Journaled DEF J
<1>3. CASE FinishAdmitted(J) /\ op' = [at |-> "close", target |-> J.target]
  <2>1. op' \in [at : Activating, target : OptGeneration] /\ op'.at \in Activating
    BY <1>2, <1>3 DEF Activating
  <2>2. LinksMatch(state)'
    BY <1>1, <1>3 DEF FinishAdmitted, LinksMatch
  <2>3. StepSound'
    BY <1>1, <1>2, <1>3, <2>2 DEF StepSound
  <2> QED BY <1>1, <2>1, <2>3, CommandMoves
<1>4. CASE UndoAdmitted(J) /\ op' = [at |-> RestoreAt(J), target |-> J.target]
  <2>1. state = J.before /\ ~Finished(J)
    BY <1>4 DEF UndoAdmitted
  <2>2. J.target = NoGeneration => J.before.active # NoGeneration
    <3> SUFFICES ASSUME J.target = NoGeneration, J.before.active = NoGeneration PROVE FALSE
      OBVIOUS
    <3>1. J.before \in States
      BY <1>1, Journaled
    <3>2. Committed(J.before, J.target) = J.before
      BY <3>1 DEF Committed, States
    <3> QED BY <2>1, <3>2 DEF Finished
  <2>3. StepSound' /\ RestoreAt(J) \in Activating
    BY <1>1, <1>4, <2>1, <2>2, Restoring
  <2>4. op' \in [at : Activating, target : OptGeneration] /\ op'.at \in Activating
    BY <1>2, <1>4, <2>3
  <2> QED BY <1>1, <2>3, <2>4, CommandMoves
<1> QED BY <1>1, <1>3, <1>4

LEMMA StopStep ==
    ASSUME InstallInv, Stop
    PROVE  InstallInv'
<1>1. op' = AtRest /\ UNCHANGED <<state, journal, current, launcher, directory>>
  BY DEF Stop, Return
<1>2. StepSound'
  BY <1>1 DEF StepSound, AtRest, Activating
<1>3. CASE journal # <<>>
  BY <1>1, <1>2, <1>3, CommandMoves
<1>4. CASE journal = <<>>
  <2>1. TypeOK'
    BY <1>1 DEF InstallInv, TypeOK, AtRest, OptGeneration
  <2>2. InventorySound' /\ JournalSound'
    BY <1>1, <1>4 DEF InstallInv, InventorySound, JournalSound
  <2>3. StagingSound'
    BY <1>1, <1>4 DEF InstallInv, StagingSound, Staging, Activating, LinksMatch, AtRest
  <2> QED BY <1>2, <2>1, <2>2, <2>3 DEF InstallInv
<1> QED BY <1>3, <1>4

LEMMA DamageStep ==
    ASSUME InstallInv, NEW g \in Generations, Damage(g)
    PROVE  InstallInv'
<1>1. /\ directory[g] = "sealed" /\ directory' = [directory EXCEPT ![g] = "damaged"]
      /\ UNCHANGED <<state, journal, current, launcher, op>>
  BY DEF Damage, Sealed
<1>2. /\ directory' \in [Generations -> {"none", "sealed", "damaged"}]
      /\ \A k \in Generations : (directory'[k] = "none") <=> (directory[k] = "none")
  BY <1>1 DEF InstallInv, TypeOK
<1>3. TypeOK'
  BY <1>1, <1>2 DEF InstallInv, TypeOK
<1>4. InventorySound'
  BY <1>1, <1>2 DEF InstallInv, InventorySound, TypeOK, States
<1>5. StagingSound'
  BY <1>1, <1>2 DEF InstallInv, StagingSound, LinksMatch, Staging
<1>6. J' = J /\ Finished(J)' = Finished(J)
  BY <1>1 DEF J, Finished, Committed
<1>7. JournalSound'
  BY <1>1, <1>6 DEF InstallInv, JournalSound, LinksMatch, Committed
<1>8. StepSound'
  BY <1>1, <1>6 DEF InstallInv, StepSound, LinksMatch
<1> QED BY <1>3, <1>4, <1>5, <1>7, <1>8 DEF InstallInv

LEMMA InstallInvStep == InstallInv /\ [Next]_vars => InstallInv'
<1> SUFFICES ASSUME InstallInv, [Next]_vars PROVE InstallInv'
  OBVIOUS
<1>1. ASSUME NEW g \in Generations, NEW program \in Binaries, BeginInstall(g, program)
      PROVE  InstallInv'
  BY <1>1, BeginInstallStep
<1>2. CASE Stage \/ WriteInventory \/ StagedHealthy \/ WriteJournal \/ BeginUninstall
  BY <1>2, StageStep, WriteInventoryStep, StagedHealthyStep, WriteJournalStep, BeginUninstallStep
<1>3. CASE Link \/ Launch \/ LauncherHealthy \/ LauncherUnhealthy \/ WriteCommitted
  BY <1>3, LinkStep, LaunchStep, LauncherHealthyStep, LauncherUnhealthyStep, WriteCommittedStep
<1>4. CASE RemoveJournal \/ DropLauncher \/ DropLink \/ BeginRecover
  BY <1>4, RemoveJournalStep, DropLauncherStep, DropLinkStep, BeginRecoverStep
<1>5. CASE Relink \/ Relaunch \/ WriteBefore \/ Stop
  BY <1>5, RelinkStep, RelaunchStep, WriteBeforeStep, StopStep
<1>6. ASSUME NEW g \in Generations, Damage(g) PROVE InstallInv'
  BY <1>6, DamageStep
<1>7. CASE UNCHANGED vars
  <2>1. UNCHANGED <<state, journal, current, launcher, directory, op>>
    BY <1>7 DEF vars
  <2>2. J' = J /\ Finished(J)' = Finished(J)
    BY <2>1 DEF J, Finished, Committed
  <2>3. TypeOK' /\ InventorySound' /\ StagingSound'
    BY <2>1 DEF InstallInv, TypeOK, InventorySound, StagingSound, LinksMatch
  <2>4. JournalSound' /\ StepSound'
    BY <2>1, <2>2 DEF InstallInv, JournalSound, StepSound, LinksMatch, Committed
  <2> QED BY <2>3, <2>4 DEF InstallInv
<1> QED BY <1>1, <1>2, <1>3, <1>4, <1>5, <1>6, <1>7 DEF Next

\* InstallInv is an inductive invariant of the installation prefix: through
\* every activation, undoing, uninstall and recovery, every crash between two
\* of their writes, and damage to generations (install.rs:250-560).
THEOREM InstallInvariance == Spec => []InstallInv
<1>1. Init => InstallInv
  BY InstallInvInit
<1>2. InstallInv /\ [Next]_vars => InstallInv'
  BY InstallInvStep
<1> QED BY <1>1, <1>2, PTL DEF Spec

\* The launcher leads to a generation of the inventory at every moment, and a
\* prefix that a crash left behind is either consistent or one that recover
\* finishes or undoes, unless the generation it needs is damaged
\* (install.rs:324, 336, 351, 392, 553).
THEOREM InstallAlwaysSafe == Spec => []InstallSafety
<1>1. InstallInv => InstallSafety
  <2> SUFFICES ASSUME InstallInv PROVE InstallSafety
    OBVIOUS
  <2>1. LauncherResolves
    BY DEF InstallInv, TypeOK, States, InventorySound, LauncherResolves
  <2>2. NeverStuck
    <3>1. CASE journal = <<>>
      BY <3>1 DEF InstallInv, StagingSound, NeverStuck
    <3>2. CASE journal # <<>>
      <4> SUFFICES ASSUME Needed(J) # NoGeneration => Sealed(Needed(J))
                   PROVE  FinishAdmitted(J) \/ UndoAdmitted(J)
        BY <3>2 DEF NeverStuck, J
      <4>1. CASE Finished(J)
        BY <3>2, <4>1, Journaled DEF FinishAdmitted, Needed
      <4>2. CASE ~Finished(J)
        BY <3>2, <4>2, Journaled DEF UndoAdmitted, RestoreAdmitted, Needed, Finished
      <4> QED BY <4>1, <4>2
    <3> QED BY <3>1, <3>2
  <2> QED BY <2>1, <2>2 DEF InstallSafety
<1> QED BY <1>1, InstallInvariance, PTL

\* The floor of releases never sinks, and a generation that becomes active is
\* not older than the newest release that was ever committed, whatever was
\* undone, uninstalled or interrupted before (install.rs:108, 269).
THEOREM NeverDowngraded == Spec => NoDowngrade
<1>1. InstallInv /\ [Next]_vars => [NoDowngradeStep]_vars
  <2> SUFFICES ASSUME InstallInv, Next PROVE NoDowngradeStep
    BY DEF vars
  <2>1. state \in States /\ state.floor \in Nat
    <3>1. state \in States
      BY DEF InstallInv, TypeOK
    <3> QED BY <3>1, InstallAssumption DEF States
  <2>2. CASE state'.active = state.active /\ state'.floor = state.floor
    BY <2>1, <2>2 DEF NoDowngradeStep
  <2>3. CASE WriteInventory
    BY <2>1, <2>2, <2>3 DEF WriteInventory, States
  <2>4. CASE WriteCommitted
    <3>1. /\ op.at = "commit" /\ state' = Committed(state, op.target)
          /\ "commit" \in Activating
      BY <2>4 DEF WriteCommitted, Activating
    <3>2. journal # <<>> /\ op.target = J.target /\ state = J.before
      BY <3>1, AtStep
    <3>3. /\ J.target \in OptGeneration
          /\ J.target # NoGeneration => Version[J.target] >= J.before.floor
      BY <3>2, Journaled
    <3>4. state'.active = J.target /\ state'.floor >= state.floor
      BY <2>1, <3>1, <3>2, <3>3, CommittedFields
    <3> QED BY <3>2, <3>3, <3>4 DEF NoDowngradeStep
  <2>5. CASE WriteBefore
    <3>1. op.at = "back" /\ state' = J.before /\ "back" \in Activating
      BY <2>5 DEF WriteBefore, Activating, J
    <3>2. state = J.before
      BY <3>1, AtStep
    <3> QED BY <2>2, <3>1, <3>2
  <2>6. CASE state' = state
    BY <2>2, <2>6
  <2>7. state' = state \/ WriteInventory \/ WriteCommitted \/ WriteBefore
    BY DEF Next, BeginInstall, Stage, StagedHealthy, WriteJournal, Link, Launch,
           LauncherHealthy, LauncherUnhealthy, RemoveJournal, BeginUninstall, DropLauncher,
           DropLink, BeginRecover, Relink, Relaunch, Stop, Damage
  <2> QED BY <2>3, <2>4, <2>5, <2>6, <2>7
<1> QED BY <1>1, InstallInvariance, PTL DEF Spec, NoDowngrade
-----------------------------------------------------------------------------
(* The files of finished runs.  RetentionSafety speaks of the ledger on    *)
(* disk; what the next save writes comes from memory, so the same has to   *)
(* hold of the ledger in memory, of what a failing save may have made      *)
(* visible, and of the files that the journal is about to remove.          *)

Record == [pinned : BOOLEAN, ended : BOOLEAN, body : BOOLEAN]
Entry == [run : Runs, body : BOOLEAN]
LedgerType == [runs : UNION {[D -> Record] : D \in SUBSET Runs}, retired : Seq(Entry)]
FileNames == Runs \X {"log", "body"}

RetentionTypeOK ==
    /\ mem \in LedgerType /\ disk \in LedgerType
    /\ log \in [Runs -> {"none", "own", "foreign"}]
    /\ body \in [Runs -> BOOLEAN]
    /\ active \subseteq Runs /\ finishing \subseteq Runs
    /\ work \in [kind : {"none", "begin", "commit", "unpin", "open"}, run : Runs \cup {None},
                 at : {"none", "clean", "log", "save", "room", "commit"}]
    /\ up \in BOOLEAN /\ charged \subseteq FileNames

\* Files c that records answered for, which are there by l and b.
Answerable(r, c, l, b) ==
    (<<r, "log">> \in c /\ l[r] # "none") \/ (<<r, "body">> \in c /\ b[r])

\* A ledger answers for the files that are there, and has those it names.
Sound(ledg, c, l, b) ==
    /\ DOMAIN ledg.runs \cap Retired(ledg) = {}
    /\ \A r \in DOMAIN ledg.runs \cup Retired(ledg) : <<r, "log">> \in c
    /\ \A r \in DOMAIN ledg.runs :
          /\ ledg.runs[r].ended => l[r] # "none"
          /\ ledg.runs[r].body => b[r]
          /\ <<r, "body">> \in c => ledg.runs[r].body
    /\ \A i \in DOMAIN ledg.retired :
          <<ledg.retired[i].run, "body">> \in c => ledg.retired[i].body
    /\ \A r \in Runs : Answerable(r, c, l, b) => r \in DOMAIN ledg.runs \cup Retired(ledg)

ChargedSound ==
    /\ Referenced(disk) \subseteq charged
    /\ \A r \in Runs : <<r, "body">> \in charged => <<r, "log">> \in charged

\* While a host is there, or comes up, it works on a ledger in memory.
MemorySound ==
    up \/ work # NoWork =>
      /\ Sound(mem, charged, log, body)
      /\ Retired(mem) \cap DOMAIN disk.runs = {}
      /\ \A r \in active \cap DOMAIN mem.runs : log[r] # "none"

WorkSound ==
    /\ work.at = "none" => work = NoWork
    /\ ~up => active = {} /\ work.kind \in {"none", "open"}
    /\ work.at \in {"log", "save"} =>
          mem.retired # <<>> /\ (First.body => ~body[First.run])
    /\ work.at = "save" => log[First.run] = "none"
    /\ work.at = "commit" => work.kind = "commit" /\ log[work.run] # "none"
    /\ work.kind = "commit" => work.run \in Runs /\ Fresh(work.run)

RetentionInv ==
    /\ RetentionTypeOK /\ Sound(disk, charged, log, body)
    /\ ChargedSound /\ MemorySound /\ WorkSound

LEMMA TailEntries ==
    ASSUME NEW s \in Seq(Entry), s # <<>>
    PROVE  /\ Tail(s) \in Seq(Entry) /\ 1 \in DOMAIN s /\ s[1] \in Entry
           /\ \A i \in DOMAIN Tail(s) : \E j \in DOMAIN s : Tail(s)[i] = s[j]
           /\ \A j \in DOMAIN s : s[j] = s[1] \/ \E i \in DOMAIN Tail(s) : Tail(s)[i] = s[j]
<1>1. /\ Tail(s) \in Seq(Entry) /\ Len(s) \in Nat /\ Len(s) > 0 /\ DOMAIN s = 1..Len(s)
      /\ Len(Tail(s)) = Len(s) - 1 /\ DOMAIN Tail(s) = 1..(Len(s) - 1)
      /\ \A i \in 1..(Len(s) - 1) : Tail(s)[i] = s[i + 1]
  OBVIOUS
<1>2. 1 \in DOMAIN s /\ s[1] \in Entry
  BY <1>1
<1>3. ASSUME NEW i \in DOMAIN Tail(s) PROVE \E j \in DOMAIN s : Tail(s)[i] = s[j]
  <2>1. i + 1 \in DOMAIN s /\ Tail(s)[i] = s[i + 1]
    BY <1>1
  <2> QED BY <2>1
<1>4. ASSUME NEW j \in DOMAIN s, s[j] # s[1]
      PROVE  \E i \in DOMAIN Tail(s) : Tail(s)[i] = s[j]
  <2>1. j # 1
    BY <1>4
  <2>2. j - 1 \in 1..(Len(s) - 1) /\ (j - 1) + 1 = j
    BY <1>1, <2>1
  <2>3. j - 1 \in DOMAIN Tail(s) /\ Tail(s)[j - 1] = s[j]
    BY <1>1, <2>2
  <2> QED BY <2>3
<1> QED BY <1>1, <1>2, <1>3, <1>4

LEMMA AppendEntries ==
    ASSUME NEW s \in Seq(Entry), NEW e \in Entry
    PROVE  /\ Append(s, e) \in Seq(Entry)
           /\ \A i \in DOMAIN Append(s, e) :
                 Append(s, e)[i] = e \/ \E j \in DOMAIN s : Append(s, e)[i] = s[j]
           /\ \A j \in DOMAIN s : j \in DOMAIN Append(s, e) /\ Append(s, e)[j] = s[j]
           /\ \E i \in DOMAIN Append(s, e) : Append(s, e)[i] = e
<1>1. /\ Append(s, e) \in Seq(Entry) /\ Len(s) \in Nat /\ DOMAIN s = 1..Len(s)
      /\ DOMAIN Append(s, e) = 1..(Len(s) + 1)
      /\ Append(s, e)[Len(s) + 1] = e
      /\ \A i \in 1..Len(s) : Append(s, e)[i] = s[i]
  OBVIOUS
<1> QED BY <1>1

\* A ledger of records and of a journal.
LEMMA LedgerTyped ==
    ASSUME NEW runs, NEW retired \in Seq(Entry), DOMAIN runs \subseteq Runs,
           runs \in [DOMAIN runs -> Record]
    PROVE  /\ Ledger(runs, retired) \in LedgerType
           /\ Ledger(runs, retired).runs = runs
           /\ Ledger(runs, retired).retired = retired
BY DEF Ledger, LedgerType

LEMMA LedgerShape ==
    ASSUME NEW L \in LedgerType
    PROVE  /\ DOMAIN L.runs \subseteq Runs /\ L.runs \in [DOMAIN L.runs -> Record]
           /\ L.retired \in Seq(Entry)
           /\ Retired(L) \subseteq Runs
           /\ \A i \in DOMAIN L.retired : L.retired[i] \in Entry
<1>1. /\ DOMAIN L.runs \subseteq Runs /\ L.runs \in [DOMAIN L.runs -> Record]
      /\ L.retired \in Seq(Entry)
  BY DEF LedgerType
<1>2. \A i \in DOMAIN L.retired : L.retired[i] \in Entry
  BY <1>1
<1> QED BY <1>1, <1>2 DEF Retired, Entry

LEMMA RetentionInvInit == RetentionInit => RetentionInv
<1> SUFFICES ASSUME RetentionInit PROVE RetentionInv
  OBVIOUS
<1>1. /\ mem.runs = <<>> /\ mem.retired = <<>> /\ disk = mem /\ mem = Ledger(<<>>, <<>>)
      /\ DOMAIN mem.runs = {} /\ Retired(mem) = {} /\ DOMAIN mem.retired = {}
  BY DEF RetentionInit, Ledger, Retired
<1>2. mem \in LedgerType
  <2>1. <<>> \in [{} -> Record] /\ <<>> \in Seq(Entry) /\ DOMAIN <<>> = {}
    OBVIOUS
  <2> QED BY <1>1, <2>1, LedgerTyped
<1>3. RetentionTypeOK
  BY <1>1, <1>2 DEF RetentionInit, RetentionTypeOK, NoWork, FileNames
<1>4. Sound(mem, charged, log, body)
  BY <1>1 DEF RetentionInit, Sound, Answerable
<1>5. ChargedSound
  BY <1>1 DEF RetentionInit, ChargedSound, Referenced
<1>6. MemorySound /\ WorkSound
  BY <1>1, <1>4 DEF RetentionInit, MemorySound, WorkSound, NoWork
<1> QED BY <1>1, <1>3, <1>4, <1>5, <1>6 DEF RetentionInv

\* The files that the records of a ledger name.
LEMMA ReferencedNames ==
    ASSUME NEW L \in LedgerType, NEW r
    PROVE  /\ <<r, "log">> \in Referenced(L) <=> r \in DOMAIN L.runs
           /\ <<r, "body">> \in Referenced(L) <=> r \in DOMAIN L.runs /\ L.runs[r].body
           /\ Referenced(L) \subseteq FileNames
<1>1. \A x \in DOMAIN L.runs : x \in Runs
  BY LedgerShape
<1>2. <<r, "log">> \in Referenced(L) <=> r \in DOMAIN L.runs
  BY DEF Referenced
<1>3. (<<r, "body">> \in Referenced(L)) <=> (r \in DOMAIN L.runs /\ L.runs[r].body)
  BY DEF Referenced
<1>4. Referenced(L) \subseteq FileNames
  BY <1>1 DEF Referenced, FileNames
<1> QED BY <1>2, <1>3, <1>4

\* A ledger stays sound when another one is charged that names no more.
LEMMA ChargeMore ==
    ASSUME NEW L \in LedgerType, NEW M \in LedgerType, NEW c, NEW l, NEW b,
           Sound(L, c, l, b),
           \A r \in DOMAIN M.runs :
              r \in DOMAIN L.runs /\ (M.runs[r].body => L.runs[r].body)
    PROVE  Sound(L, c \cup Referenced(M), l, b)
<1> DEFINE c2 == c \cup Referenced(M)
<1>1. \A r : <<r, "log">> \in c2 => <<r, "log">> \in c
  BY ReferencedNames DEF Sound
<1>2. \A r : <<r, "body">> \in c2 =>
               <<r, "body">> \in c \/ (r \in DOMAIN L.runs /\ L.runs[r].body)
  BY ReferencedNames
<1>3. c \subseteq c2
  OBVIOUS
<1> HIDE DEF c2
<1>4. \A i \in DOMAIN L.retired : L.retired[i].run \notin DOMAIN L.runs
  BY DEF Sound, Retired
<1>5. \A i \in DOMAIN L.retired : <<L.retired[i].run, "body">> \in c2 => L.retired[i].body
  BY <1>2, <1>4 DEF Sound
<1>6. \A r \in DOMAIN L.runs : <<r, "body">> \in c2 => L.runs[r].body
  BY <1>2 DEF Sound
<1>7. \A r \in Runs : Answerable(r, c2, l, b) => r \in DOMAIN L.runs \cup Retired(L)
  BY <1>1, <1>2 DEF Sound, Answerable
<1>8. Sound(L, c2, l, b)
  BY <1>3, <1>5, <1>6, <1>7 DEF Sound
<1> QED BY <1>8 DEF c2

\* A ledger stays sound when files change that none of its records names.
LEMMA OtherFiles ==
    ASSUME NEW L, NEW c, NEW l, NEW b, NEW l2, NEW b2,
           Sound(L, c, l, b),
           \A r \in DOMAIN L.runs : (l[r] # "none" => l2[r] # "none") /\ (b[r] => b2[r]),
           \A r \in Runs : Answerable(r, c, l2, b2) => Answerable(r, c, l, b)
    PROVE  Sound(L, c, l2, b2)
BY DEF Sound

\* What a save does to the ledger on disk and to the files charged.
LEMMA LedgerSaved ==
    ASSUME RetentionTypeOK, Sound(disk, charged, log, body), ChargedSound,
           NEW M \in LedgerType, NEW ok \in BOOLEAN,
           Sound(M, charged \cup Referenced(M), log, body),
           Save(M, ok)
    PROVE  /\ disk' \in LedgerType /\ charged' \subseteq FileNames
           /\ Sound(disk', charged', log, body) /\ ChargedSound'
           /\ \/ disk' = M /\ charged' = charged \cup Referenced(M)
              \/ ~ok /\ disk' = disk /\ charged' = charged
<1>1. disk \in LedgerType /\ charged \subseteq FileNames
  BY DEF RetentionTypeOK
<1>2. \/ disk' = M /\ charged' = charged \cup Referenced(M)
      \/ ~ok /\ disk' = disk /\ charged' = charged
  BY DEF Save, ChargedSound
<1>3. disk' \in LedgerType /\ charged' \subseteq FileNames
  BY <1>1, <1>2, ReferencedNames
<1>4. Sound(disk', charged', log, body)
  BY <1>2
<1>5. \A r \in Runs : <<r, "body">> \in charged' => <<r, "log">> \in charged'
  BY <1>2, ReferencedNames DEF ChargedSound
<1>6. Referenced(disk') \subseteq charged'
  BY <1>2 DEF ChargedSound
<1>7. Referenced(disk)' = Referenced(disk')
  BY DEF Referenced
<1> QED BY <1>2, <1>3, <1>4, <1>5, <1>6, <1>7 DEF ChargedSound

\* A refused request leaves the registry at rest.
LEMMA AtRestSound ==
    ASSUME work' = NoWork, ~up' => active' = {}
    PROVE  WorkSound'
BY DEF WorkSound, NoWork

LEMMA NoWorkTyped ==
    NoWork \in [kind : {"none", "begin", "commit", "unpin", "open"}, run : Runs \cup {None},
                at : {"none", "clean", "log", "save", "room", "commit"}]
BY DEF NoWork

LEMMA WorkAt ==
    ASSUME RetentionTypeOK, NEW p \in {"none", "clean", "log", "save", "room", "commit"},
           work' = [work EXCEPT !.at = p]
    PROVE  /\ work' \in [kind : {"none", "begin", "commit", "unpin", "open"}, run : Runs \cup {None},
                         at : {"none", "clean", "log", "save", "room", "commit"}]
           /\ work'.kind = work.kind /\ work'.run = work.run /\ work'.at = p
BY DEF RetentionTypeOK

LEMMA MemorySoundNext ==
    ASSUME Sound(mem', charged', log', body'), Retired(mem') \cap DOMAIN disk'.runs = {},
           \A r \in active' \cap DOMAIN mem'.runs : log'[r] # "none"
    PROVE  MemorySound'
<1>1. Sound(mem, charged, log, body)' = Sound(mem', charged', log', body')
  BY DEF Sound, Retired, Answerable
<1>2. Retired(mem)' = Retired(mem')
  BY DEF Retired
<1> QED BY <1>1, <1>2 DEF MemorySound

\* A request goes on: the run that is begun is still new.
LEMMA WorkGoesOn ==
    ASSUME RetentionInv, NEW p \in {"clean", "room"}, work' = [work EXCEPT !.at = p],
           up' = up, active' = active,
           work.run \notin DOMAIN mem.runs /\ work.run \notin DOMAIN disk.runs
             /\ <<work.run, "log">> \notin charged
           => /\ work.run \notin DOMAIN mem'.runs /\ work.run \notin DOMAIN disk'.runs
              /\ <<work.run, "log">> \notin charged'
    PROVE  WorkSound'
<1>1. /\ work'.kind = work.kind /\ work'.run = work.run /\ work'.at = p
  BY WorkAt DEF RetentionInv
<1>2. WorkSound
  BY DEF RetentionInv
<1>3. work'.kind = "commit" =>
        /\ work'.run \in Runs /\ work'.run \notin DOMAIN mem'.runs
        /\ work'.run \notin DOMAIN disk'.runs /\ <<work'.run, "log">> \notin charged'
  BY <1>1, <1>2 DEF WorkSound, Fresh
<1>4. ~up' => active' = {} /\ work'.kind \in {"none", "open"}
  BY <1>1, <1>2 DEF WorkSound
<1> QED BY <1>1, <1>3, <1>4 DEF WorkSound, Fresh

\* The runs of a journal, entry by entry.
LEMMA RetiredOf ==
    ASSUME NEW L, NEW M, \A i \in DOMAIN L.retired : \E j \in DOMAIN M.retired : L.retired[i] = M.retired[j]
    PROVE  /\ Retired(L) \subseteq Retired(M)
           /\ \A P : (\A j \in DOMAIN M.retired : <<M.retired[j].run, "body">> \in P => M.retired[j].body)
                  => (\A i \in DOMAIN L.retired : <<L.retired[i].run, "body">> \in P => L.retired[i].body)
BY DEF Retired

\* cleanup_retired drops the entry once the files are gone.
LEMMA ForgetRetiredStep ==
    ASSUME RetentionInv, NEW ok \in BOOLEAN, ForgetRetired(ok)
    PROVE  RetentionInv'
<1> DEFINE M == Ledger(mem.runs, Tail(mem.retired))
<1>1. /\ work.at = "save" /\ work # NoWork /\ Save(M, ok)
      /\ \/ ok /\ mem' = M /\ work' = [work EXCEPT !.at = "clean"]
         \/ ~ok /\ mem' = mem /\ work' = NoWork
      /\ log' = log /\ body' = body /\ active' = active /\ finishing' = finishing
      /\ up' = up /\ swaps' = swaps
  BY DEF ForgetRetired, Refused, retentionVars, ownVars, NoWork
<1>2. /\ mem.retired # <<>> /\ (First.body => ~body[First.run]) /\ log[First.run] = "none"
  BY <1>1 DEF RetentionInv, WorkSound
<1>3. /\ Sound(mem, charged, log, body) /\ Retired(mem) \cap DOMAIN disk.runs = {}
      /\ \A r \in active \cap DOMAIN mem.runs : log[r] # "none"
  BY <1>1 DEF RetentionInv, MemorySound
<1>4. mem \in LedgerType /\ RetentionTypeOK /\ ChargedSound /\ Sound(disk, charged, log, body)
  BY DEF RetentionInv, RetentionTypeOK
<1>5. /\ Tail(mem.retired) \in Seq(Entry) /\ 1 \in DOMAIN mem.retired
      /\ \A i \in DOMAIN Tail(mem.retired) :
            \E j \in DOMAIN mem.retired : Tail(mem.retired)[i] = mem.retired[j]
      /\ \A j \in DOMAIN mem.retired :
            \/ mem.retired[j] = First
            \/ \E i \in DOMAIN Tail(mem.retired) : Tail(mem.retired)[i] = mem.retired[j]
  BY <1>2, <1>4, LedgerShape, TailEntries DEF First
<1>6. /\ M \in LedgerType /\ M.runs = mem.runs /\ M.retired = Tail(mem.retired)
  BY <1>4, <1>5, LedgerShape, LedgerTyped
<1> HIDE DEF M
<1>7. /\ Retired(M) \subseteq Retired(mem) /\ Retired(mem) \subseteq Retired(M) \cup {First.run}
  <2>1. \A i \in DOMAIN M.retired : \E j \in DOMAIN mem.retired : M.retired[i] = mem.retired[j]
    BY <1>5, <1>6, Zenon
  <2>2. \A j \in DOMAIN mem.retired :
           mem.retired[j] = First \/ \E i \in DOMAIN M.retired : M.retired[i] = mem.retired[j]
    BY <1>5, <1>6, Zenon
  <2>3. Retired(mem) \subseteq Retired(M) \cup {First.run}
    BY <2>2, Zenon DEF Retired
  <2> QED BY <2>1, <2>3, RetiredOf
<1>8. <<First.run, "body">> \in charged => First.body
  BY <1>3, <1>5 DEF Sound, First
<1>9. ~Answerable(First.run, charged, log, body)
  BY <1>2, <1>8 DEF Answerable
<1>10. \A i \in DOMAIN M.retired : <<M.retired[i].run, "body">> \in charged => M.retired[i].body
  <2>1. \A i \in DOMAIN M.retired : \E j \in DOMAIN mem.retired : M.retired[i] = mem.retired[j]
    BY <1>5, <1>6, Zenon
  <2>2. \A j \in DOMAIN mem.retired :
           <<mem.retired[j].run, "body">> \in charged => mem.retired[j].body
    BY <1>3 DEF Sound
  <2> QED BY <2>1, <2>2, RetiredOf
<1>11. \A r \in Runs : Answerable(r, charged, log, body) => r \in DOMAIN M.runs \cup Retired(M)
  BY <1>3, <1>6, <1>7, <1>9 DEF Sound
<1>12. Sound(M, charged, log, body)
  BY <1>3, <1>6, <1>7, <1>10, <1>11 DEF Sound
<1>13. Sound(M, charged \cup Referenced(M), log, body) /\ Sound(mem, charged \cup Referenced(M), log, body)
  BY <1>3, <1>4, <1>6, <1>12, ChargeMore
<1>14. /\ disk' \in LedgerType /\ charged' \subseteq FileNames
       /\ Sound(disk', charged', log, body) /\ ChargedSound'
       /\ \/ disk' = M /\ charged' = charged \cup Referenced(M)
          \/ ~ok /\ disk' = disk /\ charged' = charged
  BY <1>1, <1>4, <1>6, <1>13, LedgerSaved
<1>15. Sound(mem', charged', log', body')
  BY <1>1, <1>3, <1>13, <1>14
<1>16. Retired(mem') \cap DOMAIN disk'.runs = {}
  BY <1>1, <1>3, <1>6, <1>7, <1>12, <1>14 DEF Sound
<1>17. MemorySound'
  BY <1>1, <1>3, <1>6, <1>15, <1>16, MemorySoundNext
<1>18. work' \in [kind : {"none", "begin", "commit", "unpin", "open"}, run : Runs \cup {None},
                  at : {"none", "clean", "log", "save", "room", "commit"}]
  BY <1>1, <1>4, WorkAt, NoWorkTyped
<1>19. mem' \in LedgerType
  BY <1>1, <1>4, <1>6
<1>20. RetentionTypeOK'
  BY <1>1, <1>4, <1>14, <1>18, <1>19 DEF RetentionTypeOK
<1>21. WorkSound'
  <2>1. CASE ok
    <3>1. charged' = charged \cup Referenced(M) /\ DOMAIN disk'.runs = DOMAIN mem.runs
          /\ DOMAIN mem'.runs = DOMAIN mem.runs
      BY <1>1, <1>6, <1>14, <2>1
    <3>2. <<work.run, "log">> \notin charged /\ work.run \notin DOMAIN mem.runs
          => <<work.run, "log">> \notin charged'
      BY <3>1, <1>6, ReferencedNames
    <3> QED BY <1>1, <2>1, <3>1, <3>2, WorkGoesOn
  <2>2. CASE ~ok
    BY <1>1, <2>2, AtRestSound DEF RetentionInv, WorkSound
  <2> QED BY <2>1, <2>2
<1>22. Sound(disk, charged, log, body)'
  BY <1>1, <1>14 DEF Sound, Answerable, Retired
<1> QED BY <1>14, <1>17, <1>20, <1>21, <1>22 DEF RetentionInv

\* A step that saves ledger M and touches no file: what is left to show is that
\* the ledger in memory is sound and that the request goes on.
LEMMA SaveStep ==
    ASSUME RetentionInv, NEW M \in LedgerType, NEW ok \in BOOLEAN,
           Sound(M, charged \cup Referenced(M), log, body), Save(M, ok),
           log' = log, body' = body, active' = active, finishing' \subseteq Runs, up' = up,
           mem' \in LedgerType,
           Sound(mem', charged', log, body), Retired(mem') \cap DOMAIN disk'.runs = {},
           \A r \in active \cap DOMAIN mem'.runs : log[r] # "none",
           work' \in [kind : {"none", "begin", "commit", "unpin", "open"}, run : Runs \cup {None},
                      at : {"none", "clean", "log", "save", "room", "commit"}],
           WorkSound'
    PROVE  RetentionInv'
<1>1. RetentionTypeOK /\ ChargedSound /\ Sound(disk, charged, log, body)
  BY DEF RetentionInv
<1>2. /\ disk' \in LedgerType /\ charged' \subseteq FileNames
      /\ Sound(disk', charged', log, body) /\ ChargedSound'
  BY <1>1, LedgerSaved
<1>3. MemorySound'
  BY MemorySoundNext
<1>4. RetentionTypeOK'
  BY <1>1, <1>2 DEF RetentionTypeOK
<1>5. Sound(disk, charged, log, body)'
  BY <1>2 DEF Sound, Answerable, Retired
<1> QED BY <1>2, <1>3, <1>4, <1>5 DEF RetentionInv

\* What the save of M leaves, for a registry that keeps its ledger or takes M.
LEMMA SavedMemory ==
    ASSUME RetentionInv, NEW M \in LedgerType, NEW ok \in BOOLEAN,
           Sound(M, charged, log, body), Save(M, ok),
           Sound(mem, charged, log, body), Retired(mem) \cap DOMAIN disk.runs = {},
           \A r \in DOMAIN M.runs : r \in DOMAIN mem.runs,
           \/ mem' = M /\ (ok \/ Retired(M) \cap DOMAIN disk.runs = {})
           \/ /\ ~ok /\ mem' = mem
              /\ \A r \in DOMAIN M.runs : M.runs[r].body => mem.runs[r].body
    PROVE  /\ mem' \in LedgerType
           /\ Sound(M, charged \cup Referenced(M), log, body)
           /\ Sound(mem', charged', log, body)
           /\ Retired(mem') \cap DOMAIN disk'.runs = {}
           /\ \A r : r \notin DOMAIN mem.runs /\ <<r, "log">> \notin charged
                     => <<r, "log">> \notin charged'
<1>1. mem \in LedgerType /\ RetentionTypeOK /\ ChargedSound /\ Sound(disk, charged, log, body)
  BY DEF RetentionInv, RetentionTypeOK
<1>2. Sound(M, charged \cup Referenced(M), log, body)
  BY ChargeMore
<1>3. \/ disk' = M /\ charged' = charged \cup Referenced(M)
      \/ ~ok /\ disk' = disk /\ charged' = charged
  BY <1>1, <1>2, LedgerSaved
<1>4. Sound(mem', charged', log, body)
  <2>1. CASE mem' = M
    BY <1>2, <1>3, <2>1
  <2>2. CASE /\ mem' = mem
             /\ \A r \in DOMAIN M.runs : M.runs[r].body => mem.runs[r].body
    <3>1. Sound(mem, charged \cup Referenced(M), log, body)
      BY <1>1, <2>2, ChargeMore
    <3> QED BY <1>3, <2>2, <3>1
  <2> QED BY <2>1, <2>2
<1>5. Retired(mem') \cap DOMAIN disk'.runs = {}
  <2>1. Retired(M) \cap DOMAIN M.runs = {} /\ Retired(mem) \cap DOMAIN mem.runs = {}
    BY DEF Sound
  <2> QED BY <2>1, <1>3
<1>6. \A r : r \notin DOMAIN mem.runs /\ <<r, "log">> \notin charged => <<r, "log">> \notin charged'
  BY <1>3, ReferencedNames
<1> QED BY <1>1, <1>2, <1>4, <1>5, <1>6

\* remove_history puts the run that goes into the journal.
LEMMA RetireStep ==
    ASSUME RetentionInv, NEW r \in Runs, NEW ok \in BOOLEAN, Retire(r, ok)
    PROVE  RetentionInv'
<1> DEFINE M == Ledger(Drop(mem.runs, r), Intent(r))
<1>1. /\ work.at = "room" /\ work # NoWork /\ r \in DOMAIN mem.runs /\ Save(M, ok)
      /\ \/ ok /\ mem' = M /\ work' = [work EXCEPT !.at = "clean"]
         \/ ~ok /\ mem' = mem /\ work' = NoWork
      /\ log' = log /\ body' = body /\ active' = active /\ finishing' = finishing
      /\ up' = up /\ swaps' = swaps
  BY DEF Retire, Refused, retentionVars, ownVars, NoWork
<1>2. /\ Sound(mem, charged, log, body) /\ Retired(mem) \cap DOMAIN disk.runs = {}
      /\ \A x \in active \cap DOMAIN mem.runs : log[x] # "none"
  BY <1>1 DEF RetentionInv, MemorySound
<1>3. mem \in LedgerType /\ RetentionTypeOK
  BY DEF RetentionInv, RetentionTypeOK
<1> DEFINE e == [run |-> r, body |-> mem.runs[r].body]
<1>4. e \in Entry /\ e.run = r /\ e.body = mem.runs[r].body
  BY <1>1, <1>3, LedgerShape DEF Entry, Record
<1>5. /\ Intent(r) \in Seq(Entry)
      /\ \A i \in DOMAIN Intent(r) :
            Intent(r)[i] = e \/ \E j \in DOMAIN mem.retired : Intent(r)[i] = mem.retired[j]
      /\ \A j \in DOMAIN mem.retired : j \in DOMAIN Intent(r) /\ Intent(r)[j] = mem.retired[j]
      /\ \E i \in DOMAIN Intent(r) : Intent(r)[i] = e
  BY <1>3, <1>4, LedgerShape, AppendEntries DEF Intent
<1> HIDE DEF e
<1>6. /\ DOMAIN Drop(mem.runs, r) = DOMAIN mem.runs \ {r}
      /\ \A x \in DOMAIN mem.runs \ {r} : Drop(mem.runs, r)[x] = mem.runs[x]
      /\ Drop(mem.runs, r) \in [DOMAIN Drop(mem.runs, r) -> Record]
  BY <1>3, LedgerShape DEF Drop
<1>7. M \in LedgerType /\ M.runs = Drop(mem.runs, r) /\ M.retired = Intent(r)
  BY <1>3, <1>5, <1>6, LedgerShape, LedgerTyped
<1> HIDE DEF M
<1>8. /\ DOMAIN M.runs = DOMAIN mem.runs \ {r}
      /\ \A x \in DOMAIN M.runs : M.runs[x] = mem.runs[x]
  BY <1>6, <1>7
<1>9. /\ \A i \in DOMAIN M.retired :
            M.retired[i] = e \/ \E j \in DOMAIN mem.retired : M.retired[i] = mem.retired[j]
      /\ \A j \in DOMAIN mem.retired : j \in DOMAIN M.retired /\ M.retired[j] = mem.retired[j]
      /\ \E i \in DOMAIN M.retired : M.retired[i] = e
  BY <1>5, <1>7, Zenon
<1>10. Retired(M) = Retired(mem) \cup {r}
  <2>1. Retired(M) \subseteq Retired(mem) \cup {r}
    <3>1. ASSUME NEW i \in DOMAIN M.retired
          PROVE  M.retired[i].run = r \/ \E j \in DOMAIN mem.retired : M.retired[i].run = mem.retired[j].run
      BY <1>4, <1>9, Zenon
    <3> QED BY <3>1 DEF Retired
  <2>2. Retired(mem) \subseteq Retired(M)
    BY <1>9, Zenon DEF Retired
  <2>3. r \in Retired(M)
    BY <1>4, <1>9, Zenon DEF Retired
  <2> QED BY <2>1, <2>2, <2>3
<1>11. \A i \in DOMAIN M.retired : <<M.retired[i].run, "body">> \in charged => M.retired[i].body
  <2>1. \A j \in DOMAIN mem.retired : <<mem.retired[j].run, "body">> \in charged => mem.retired[j].body
    BY <1>2 DEF Sound
  <2>2. <<e.run, "body">> \in charged => e.body
    BY <1>1, <1>2, <1>4 DEF Sound
  <2> QED BY <1>9, <2>1, <2>2, Zenon
<1>12. Sound(M, charged, log, body)
  <2>1. \A x \in DOMAIN M.runs \cup Retired(M) : <<x, "log">> \in charged
    BY <1>1, <1>2, <1>8, <1>10 DEF Sound
  <2>2. DOMAIN M.runs \cap Retired(M) = {} /\ DOMAIN M.runs \cup Retired(M) = DOMAIN mem.runs \cup Retired(mem)
    BY <1>1, <1>2, <1>8, <1>10 DEF Sound
  <2>3. \A x \in DOMAIN M.runs :
          /\ M.runs[x].ended => log[x] # "none"
          /\ M.runs[x].body => body[x]
          /\ <<x, "body">> \in charged => M.runs[x].body
    BY <1>2, <1>8 DEF Sound
  <2>4. \A x \in Runs : Answerable(x, charged, log, body) => x \in DOMAIN M.runs \cup Retired(M)
    BY <1>2, <2>2 DEF Sound
  <2> QED BY <1>11, <2>1, <2>2, <2>3, <2>4 DEF Sound
<1>13. /\ mem' \in LedgerType /\ Sound(M, charged \cup Referenced(M), log, body)
       /\ Sound(mem', charged', log, body) /\ Retired(mem') \cap DOMAIN disk'.runs = {}
       /\ \A x : x \notin DOMAIN mem.runs /\ <<x, "log">> \notin charged => <<x, "log">> \notin charged'
  <2>1. (\A x \in DOMAIN M.runs : x \in DOMAIN mem.runs /\ (M.runs[x].body => mem.runs[x].body))
    BY <1>8
  <2>2. \/ mem' = M /\ (ok \/ Retired(M) \cap DOMAIN disk.runs = {})
        \/ /\ ~ok /\ mem' = mem
           /\ \A x \in DOMAIN M.runs : M.runs[x].body => mem.runs[x].body
    BY <1>1, <2>1
  <2>3. Save(M, ok) /\ RetentionInv
    BY <1>1 DEF M
  <2> QED BY <1>2, <1>7, <1>12, <2>1, <2>2, <2>3, SavedMemory
<1>14. work' \in [kind : {"none", "begin", "commit", "unpin", "open"}, run : Runs \cup {None},
                  at : {"none", "clean", "log", "save", "room", "commit"}]
  BY <1>1, <1>3, WorkAt, NoWorkTyped
<1>15. /\ \/ disk' = M \/ disk' = disk
  BY <1>1 DEF Save
<1>16. DOMAIN mem'.runs \subseteq DOMAIN mem.runs
  BY <1>1, <1>8
<1>17. WorkSound'
  <2>1. CASE ok
    <3>1. work' = [work EXCEPT !.at = "clean"]
      BY <1>1, <2>1
    <3>2. work.run \notin DOMAIN mem.runs /\ work.run \notin DOMAIN disk.runs
             /\ <<work.run, "log">> \notin charged
           => /\ work.run \notin DOMAIN mem'.runs /\ work.run \notin DOMAIN disk'.runs
              /\ <<work.run, "log">> \notin charged'
      BY <1>8, <1>13, <1>15, <1>16
    <3> QED BY <1>1, <3>1, <3>2, WorkGoesOn
  <2>2. CASE ~ok
    BY <1>1, <2>2, AtRestSound DEF RetentionInv, WorkSound
  <2> QED BY <2>1, <2>2
<1>18. \A x \in active \cap DOMAIN mem'.runs : log[x] # "none"
  BY <1>2, <1>16
<1>19. Save(M, ok) /\ finishing' \subseteq Runs
  BY <1>1, <1>3 DEF M, RetentionTypeOK
<1> QED BY <1>1, <1>7, <1>13, <1>14, <1>17, <1>18, <1>19, SaveStep

\* Ledgers that differ in the pins alone answer for the same files.
LEMMA SameFiles ==
    ASSUME NEW L, NEW M, NEW c, NEW l, NEW b, Sound(L, c, l, b),
           DOMAIN M.runs = DOMAIN L.runs, M.retired = L.retired,
           \A r \in DOMAIN L.runs : /\ M.runs[r].ended = L.runs[r].ended
                                    /\ M.runs[r].body = L.runs[r].body
    PROVE  Sound(M, c, l, b) /\ Retired(M) = Retired(L)
<1>1. Retired(M) = Retired(L)
  BY DEF Retired
<1> QED BY <1>1 DEF Sound

LEMMA SavePinStep ==
    ASSUME RetentionInv, NEW r, NEW p \in BOOLEAN, NEW ok \in BOOLEAN, SavePin(r, p, ok),
           up \/ work # NoWork, work' = NoWork, active' = active, finishing' = finishing
    PROVE  RetentionInv'
<1> DEFINE runs == [mem.runs EXCEPT ![r].pinned = p]
           M == Ledger(runs, mem.retired)
<1>1. /\ Save(M, ok) /\ mem' = (IF ok THEN M ELSE mem)
      /\ log' = log /\ body' = body /\ up' = up
  BY DEF SavePin
<1>2. /\ Sound(mem, charged, log, body) /\ Retired(mem) \cap DOMAIN disk.runs = {}
      /\ \A x \in active \cap DOMAIN mem.runs : log[x] # "none"
  BY DEF RetentionInv, MemorySound
<1>3. mem \in LedgerType /\ RetentionTypeOK
  BY DEF RetentionInv, RetentionTypeOK
<1>4. /\ DOMAIN mem.runs \subseteq Runs /\ mem.runs \in [DOMAIN mem.runs -> Record]
      /\ mem.retired \in Seq(Entry)
  BY <1>3, LedgerShape
<1>5. DOMAIN runs = DOMAIN mem.runs
  OBVIOUS
<1>6. ASSUME NEW x \in DOMAIN mem.runs
      PROVE  /\ runs[x] \in Record /\ runs[x].ended = mem.runs[x].ended
             /\ runs[x].body = mem.runs[x].body
  <2>1. mem.runs[x] \in Record
    BY <1>4
  <2>2. CASE x # r
    BY <2>1, <2>2
  <2>3. CASE x = r
    <3>1. runs[x] = [mem.runs[x] EXCEPT !.pinned = p]
      BY <2>3
    <3> QED BY <2>1, <3>1 DEF Record
  <2> QED BY <2>2, <2>3
<1>7. runs \in [DOMAIN runs -> Record]
  BY <1>5, <1>6
<1> HIDE DEF runs
<1>8. M \in LedgerType /\ M.runs = runs /\ M.retired = mem.retired
  BY <1>4, <1>5, <1>7, LedgerTyped
<1> HIDE DEF M
<1>9. /\ DOMAIN M.runs = DOMAIN mem.runs
      /\ \A x \in DOMAIN mem.runs : /\ M.runs[x].ended = mem.runs[x].ended
                                    /\ M.runs[x].body = mem.runs[x].body
  BY <1>5, <1>6, <1>8
<1>10. Sound(M, charged, log, body)
  BY <1>2, <1>8, <1>9, SameFiles
<1>11. \/ mem' = M /\ (ok \/ Retired(M) \cap DOMAIN disk.runs = {})
       \/ /\ ~ok /\ mem' = mem
          /\ \A x \in DOMAIN M.runs : M.runs[x].body => mem.runs[x].body
  BY <1>1, <1>9
<1>12. /\ mem' \in LedgerType /\ Sound(M, charged \cup Referenced(M), log, body)
       /\ Sound(mem', charged', log, body) /\ Retired(mem') \cap DOMAIN disk'.runs = {}
  BY <1>1, <1>2, <1>8, <1>9, <1>10, <1>11, SavedMemory
<1>13. WorkSound'
  BY <1>1, AtRestSound DEF RetentionInv, WorkSound
<1>14. \A x \in active \cap DOMAIN mem'.runs : log[x] # "none"
  BY <1>1, <1>2, <1>9
<1>15. finishing' \subseteq Runs
  BY <1>3 DEF RetentionTypeOK
<1> QED BY <1>1, <1>8, <1>12, <1>13, <1>14, <1>15, NoWorkTyped, SaveStep

\* pin and unpin.
LEMMA PinSteps ==
    ASSUME RetentionInv, NEW ok \in BOOLEAN, Unpin(ok) \/ \E r \in Runs : Pin(r, ok)
    PROVE  RetentionInv'
<1>1. CASE Unpin(ok)
  <2>1. /\ SavePin(work.run, FALSE, ok) /\ work # NoWork /\ work' = NoWork
        /\ active' = active /\ finishing' = finishing
    BY <1>1 DEF Unpin, SavePin, ownVars, NoWork
  <2> QED BY <2>1, SavePinStep
<1>2. ASSUME NEW r \in Runs, Pin(r, ok) PROVE RetentionInv'
  <2>1. /\ SavePin(r, TRUE, ok) /\ up /\ work' = NoWork
        /\ active' = active /\ finishing' = finishing
    BY <1>2 DEF Pin, SavePin, ownVars
  <2> QED BY <2>1, SavePinStep
<1> QED BY <1>1, <1>2

\* The outcome of a run is entered in memory, and saved until a save succeeds.
LEMMA FinishRunStep ==
    ASSUME RetentionInv, NEW r \in Runs, NEW ok \in BOOLEAN, FinishRun(r, ok)
    PROVE  RetentionInv'
<1> DEFINE runs == [mem.runs EXCEPT ![r].ended = TRUE, ![r].body = body[r]]
           M == IF mem.runs[r].ended THEN mem ELSE Ledger(runs, mem.retired)
<1>1. /\ up /\ work = NoWork /\ r \in active \cap DOMAIN mem.runs
      /\ mem' = M /\ Save(mem', ok)
      /\ finishing' = (IF ok THEN finishing \ {r} ELSE finishing \cup {r})
      /\ log' = log /\ body' = body /\ up' = up /\ active' = active /\ work' = work
  BY DEF FinishRun
<1>2. /\ Sound(mem, charged, log, body) /\ Retired(mem) \cap DOMAIN disk.runs = {}
      /\ \A x \in active \cap DOMAIN mem.runs : log[x] # "none"
  BY <1>1 DEF RetentionInv, MemorySound
<1>3. mem \in LedgerType /\ RetentionTypeOK /\ body[r] \in BOOLEAN
  BY DEF RetentionInv, RetentionTypeOK
<1>4. /\ DOMAIN mem.runs \subseteq Runs /\ mem.runs \in [DOMAIN mem.runs -> Record]
      /\ mem.retired \in Seq(Entry)
  BY <1>3, LedgerShape
<1>5. DOMAIN runs = DOMAIN mem.runs
  OBVIOUS
<1>6. ASSUME NEW x \in DOMAIN mem.runs
      PROVE  /\ runs[x] \in Record
             /\ x # r => runs[x] = mem.runs[x]
             /\ x = r => runs[x].ended /\ runs[x].body = body[r]
  <2>1. mem.runs[x] \in Record
    BY <1>4
  <2>2. CASE x # r
    BY <2>1, <2>2
  <2>3. CASE x = r
    <3>1. runs[x] = [mem.runs[x] EXCEPT !.ended = TRUE, !.body = body[r]]
      BY <2>3
    <3> QED BY <1>3, <2>1, <2>3, <3>1 DEF Record
  <2> QED BY <2>2, <2>3
<1>7. runs \in [DOMAIN runs -> Record]
  BY <1>5, <1>6
<1> HIDE DEF runs
<1>8. /\ Ledger(runs, mem.retired) \in LedgerType
      /\ Ledger(runs, mem.retired).runs = runs /\ Ledger(runs, mem.retired).retired = mem.retired
  BY <1>4, <1>5, <1>7, LedgerTyped
<1>9. /\ M \in LedgerType /\ DOMAIN M.runs = DOMAIN mem.runs /\ M.retired = mem.retired
      /\ \A x \in DOMAIN mem.runs :
            \/ M.runs[x] = mem.runs[x]
            \/ x = r /\ M.runs[x].ended /\ M.runs[x].body = body[r]
  BY <1>3, <1>5, <1>6, <1>8
<1> HIDE DEF M
<1>10. log[r] # "none" /\ (<<r, "body">> \in charged => body[r])
  BY <1>1, <1>2 DEF Sound
<1>11. Retired(M) = Retired(mem)
  BY <1>9 DEF Retired
<1>12. \A x \in DOMAIN M.runs :
          /\ M.runs[x].ended => log[x] # "none"
          /\ M.runs[x].body => body[x]
          /\ <<x, "body">> \in charged => M.runs[x].body
  BY <1>2, <1>9, <1>10 DEF Sound
<1>13. Sound(M, charged, log, body)
  BY <1>2, <1>9, <1>11, <1>12 DEF Sound
<1>14. /\ mem' \in LedgerType /\ Sound(M, charged \cup Referenced(M), log, body)
       /\ Sound(mem', charged', log, body) /\ Retired(mem') \cap DOMAIN disk'.runs = {}
  BY <1>1, <1>2, <1>9, <1>11, <1>13, SavedMemory
<1>15. WorkSound'
  BY <1>1, AtRestSound DEF RetentionInv, WorkSound
<1>16. \A x \in active \cap DOMAIN mem'.runs : log[x] # "none"
  BY <1>1, <1>2, <1>9
<1>17. finishing' \subseteq Runs
  BY <1>1, <1>3 DEF RetentionTypeOK
<1> QED BY <1>1, <1>9, <1>14, <1>15, <1>16, <1>17, NoWorkTyped, SaveStep

\* open: what is on disk is read and saved once more.
LEMMA OpenStep == RetentionInv /\ Open => RetentionInv'
<1> SUFFICES ASSUME RetentionInv, Open PROVE RetentionInv'
  OBVIOUS
<1>1. /\ ~up /\ mem' = disk /\ Save(disk, TRUE)
      /\ work' = [kind |-> "open", run |-> None, at |-> "clean"]
      /\ log' = log /\ body' = body /\ active' = active /\ finishing' = finishing /\ up' = up
  BY DEF Open, ownVars
<1>2. /\ disk' = disk /\ charged' = charged /\ charged \cup Referenced(disk) = charged
  BY <1>1 DEF Save, RetentionInv, ChargedSound
<1>3. /\ disk \in LedgerType /\ Sound(disk, charged, log, body) /\ active = {} /\ finishing \subseteq Runs
  BY <1>1 DEF RetentionInv, RetentionTypeOK, WorkSound
<1>4. Retired(mem') \cap DOMAIN disk'.runs = {}
  BY <1>1, <1>2, <1>3 DEF Sound
<1>5. work' \in [kind : {"none", "begin", "commit", "unpin", "open"}, run : Runs \cup {None},
                 at : {"none", "clean", "log", "save", "room", "commit"}]
  BY <1>1
<1>6. WorkSound'
  BY <1>1, <1>3 DEF WorkSound
<1> QED BY <1>1, <1>2, <1>3, <1>4, <1>5, <1>6, SaveStep

\* A step that touches files and no ledger.
LEMMA FilesStep ==
    ASSUME RetentionInv, mem' = mem, disk' = disk, charged' = charged,
           active' = active, finishing' = finishing, up' \in BOOLEAN,
           log' \in [Runs -> {"none", "own", "foreign"}], body' \in [Runs -> BOOLEAN],
           Sound(disk, charged, log', body'),
           up' \/ work' # NoWork =>
             /\ up \/ work # NoWork
             /\ Sound(mem, charged, log', body')
             /\ \A r \in active \cap DOMAIN mem.runs : log'[r] # "none",
           work' \in [kind : {"none", "begin", "commit", "unpin", "open"}, run : Runs \cup {None},
                      at : {"none", "clean", "log", "save", "room", "commit"}],
           WorkSound'
    PROVE  RetentionInv'
<1>1. RetentionTypeOK' /\ ChargedSound'
  BY DEF RetentionInv, RetentionTypeOK, ChargedSound, Referenced
<1>2. Sound(disk, charged, log, body)'
  BY DEF Sound, Answerable, Retired
<1>3. CASE up' \/ work' # NoWork
  <2>1. Retired(mem) \cap DOMAIN disk.runs = {}
    BY <1>3 DEF RetentionInv, MemorySound
  <2>2. Retired(mem') = Retired(mem)
    BY DEF Retired
  <2>3. MemorySound'
    BY <1>3, <2>1, <2>2, MemorySoundNext
  <2> QED BY <1>1, <1>2, <2>3 DEF RetentionInv
<1>4. CASE ~(up' \/ work' # NoWork)
  BY <1>1, <1>2, <1>4 DEF RetentionInv, MemorySound, NoWork
<1> QED BY <1>3, <1>4

\* What the invariant says of a registry that is at work.
LEMMA AtWork ==
    ASSUME RetentionInv, up \/ work # NoWork
    PROVE  /\ mem \in LedgerType /\ disk \in LedgerType
           /\ Sound(mem, charged, log, body) /\ Sound(disk, charged, log, body)
           /\ Retired(mem) \cap DOMAIN disk.runs = {}
           /\ \A x \in active \cap DOMAIN mem.runs : log[x] # "none"
BY DEF RetentionInv, RetentionTypeOK, MemorySound

\* The first retired run: no record names its files.
LEMMA FirstRetired ==
    ASSUME RetentionInv, work # NoWork, mem.retired # <<>>
    PROVE  /\ First \in Entry /\ First.run \in Retired(mem)
           /\ First.run \notin DOMAIN mem.runs /\ First.run \notin DOMAIN disk.runs
<1>1. mem.retired \in Seq(Entry)
  BY AtWork, LedgerShape
<1>2. 1 \in DOMAIN mem.retired /\ First \in Entry
  BY <1>1, TailEntries DEF First
<1>3. First.run \in Retired(mem)
  BY <1>2 DEF Retired, First
<1> QED BY <1>2, <1>3, AtWork DEF Sound

\* cleanup_retired removes the result of the first retired run.
LEMMA RemoveBodyStep ==
    ASSUME RetentionInv, NEW ok \in BOOLEAN, RemoveBody(ok)
    PROVE  RetentionInv'
<1>1. /\ work.at = "clean" /\ work # NoWork /\ mem.retired # <<>>
      /\ mem' = mem /\ disk' = disk /\ charged' = charged /\ log' = log /\ up' = up
      /\ active' = active /\ finishing' = finishing
      /\ \/ /\ ok /\ work' = [work EXCEPT !.at = "log"]
            /\ body' = IF First.body THEN [body EXCEPT ![First.run] = FALSE] ELSE body
         \/ ~ok /\ work' = NoWork /\ body' = body
  BY DEF RemoveBody, Refused, ownVars, NoWork
<1>2. /\ First \in Entry /\ First.run \in Runs
      /\ First.run \notin DOMAIN mem.runs /\ First.run \notin DOMAIN disk.runs
  BY <1>1, FirstRetired DEF Entry
<1>3. RetentionTypeOK /\ WorkSound
  BY DEF RetentionInv
<1>4. /\ body' \in [Runs -> BOOLEAN]
      /\ \A r \in Runs : body'[r] => body[r]
      /\ \A r \in Runs : r # First.run => body'[r] = body[r]
      /\ ok /\ First.body => ~body'[First.run]
  BY <1>1, <1>2, <1>3 DEF RetentionTypeOK
<1>5. Sound(disk, charged, log', body') /\ Sound(mem, charged, log', body')
  <2>1. \A r \in Runs : Answerable(r, charged, log', body') => Answerable(r, charged, log, body)
    BY <1>1, <1>4 DEF Answerable
  <2>2. \A r \in DOMAIN mem.runs \cup DOMAIN disk.runs : r \in Runs /\ r # First.run
    BY <1>1, <1>2, AtWork, LedgerShape
  <2>3. \A r \in DOMAIN mem.runs \cup DOMAIN disk.runs :
            (log[r] # "none" => log'[r] # "none") /\ (body[r] => body'[r])
    BY <1>1, <1>4, <2>2
  <2> QED BY <1>1, <2>1, <2>3, AtWork, OtherFiles
<1>6. work' \in [kind : {"none", "begin", "commit", "unpin", "open"}, run : Runs \cup {None},
                 at : {"none", "clean", "log", "save", "room", "commit"}]
  BY <1>1, <1>3, WorkAt, NoWorkTyped
<1>7. WorkSound'
  <2>1. CASE ok
    <3>1. work'.kind = work.kind /\ work'.run = work.run /\ work'.at = "log"
      BY <1>1, <1>3, <2>1, WorkAt
    <3>2. First' = First
      BY <1>1 DEF First
    <3>3. First'.body => ~body'[First'.run]
      BY <1>4, <2>1, <3>2
    <3>4. mem'.retired # <<>>
      BY <1>1
    <3>5. work'.kind = "commit" =>
            /\ work'.run \in Runs /\ work'.run \notin DOMAIN mem'.runs
            /\ work'.run \notin DOMAIN disk'.runs /\ <<work'.run, "log">> \notin charged'
      BY <1>1, <1>3, <3>1 DEF WorkSound, Fresh
    <3>6. ~up' => active' = {} /\ work'.kind \in {"none", "open"}
      BY <1>1, <1>3, <3>1 DEF WorkSound
    <3> QED BY <3>1, <3>3, <3>4, <3>5, <3>6 DEF WorkSound, Fresh
  <2>2. CASE ~ok
    BY <1>1, <1>3, <2>2, AtRestSound DEF WorkSound
  <2> QED BY <2>1, <2>2
<1>8. log' \in [Runs -> {"none", "own", "foreign"}] /\ up' \in BOOLEAN
  BY <1>1, <1>3 DEF RetentionTypeOK
<1> QED BY <1>1, <1>4, <1>5, <1>6, <1>7, <1>8, AtWork, FilesStep

\* cleanup_retired removes the log of the first retired run.
LEMMA RemoveLogStep ==
    ASSUME RetentionInv, NEW ok \in BOOLEAN, RemoveLog(ok)
    PROVE  RetentionInv'
<1>1. /\ work.at = "log" /\ work # NoWork
      /\ mem' = mem /\ disk' = disk /\ charged' = charged /\ body' = body /\ up' = up
      /\ active' = active /\ finishing' = finishing
      /\ \/ /\ log' = [log EXCEPT ![First.run] = "none"]
            /\ work' = [work EXCEPT !.at = "save"]
         \/ work' = NoWork /\ log' = log
  BY DEF RemoveLog, Refused, ownVars, NoWork
<1>2. RetentionTypeOK /\ WorkSound
  BY DEF RetentionInv
<1>3. mem.retired # <<>> /\ (First.body => ~body[First.run])
  BY <1>1, <1>2 DEF WorkSound
<1>4. /\ First \in Entry /\ First.run \in Runs
      /\ First.run \notin DOMAIN mem.runs /\ First.run \notin DOMAIN disk.runs
  BY <1>1, <1>3, FirstRetired DEF Entry
<1>5. /\ log' \in [Runs -> {"none", "own", "foreign"}]
      /\ \A r \in Runs : log'[r] # "none" => log[r] # "none"
      /\ \A r \in Runs : r # First.run => log'[r] = log[r]
      /\ work' = [work EXCEPT !.at = "save"] => log'[First.run] = "none"
  <2>1. work' = NoWork => work' # [work EXCEPT !.at = "save"]
    BY <1>2 DEF RetentionTypeOK, NoWork
  <2> QED BY <1>1, <1>2, <1>4, <2>1 DEF RetentionTypeOK
<1>6. Sound(disk, charged, log', body') /\ Sound(mem, charged, log', body')
  <2>1. \A r \in Runs : Answerable(r, charged, log', body') => Answerable(r, charged, log, body)
    BY <1>1, <1>5 DEF Answerable
  <2>2. \A r \in DOMAIN mem.runs \cup DOMAIN disk.runs : r \in Runs /\ r # First.run
    BY <1>1, <1>4, AtWork, LedgerShape
  <2>3. \A r \in DOMAIN mem.runs \cup DOMAIN disk.runs :
            (log[r] # "none" => log'[r] # "none") /\ (body[r] => body'[r])
    BY <1>1, <1>5, <2>2
  <2> QED BY <1>1, <2>1, <2>3, AtWork, OtherFiles
<1>7. \A r \in active \cap DOMAIN mem.runs : log'[r] # "none"
  <2>1. \A r \in DOMAIN mem.runs : r \in Runs /\ r # First.run
    BY <1>1, <1>4, AtWork, LedgerShape
  <2> QED BY <1>1, <1>5, <2>1, AtWork
<1>8. work' \in [kind : {"none", "begin", "commit", "unpin", "open"}, run : Runs \cup {None},
                 at : {"none", "clean", "log", "save", "room", "commit"}]
  BY <1>1, <1>2, WorkAt, NoWorkTyped
<1>9. WorkSound'
  <2>1. CASE work' = [work EXCEPT !.at = "save"]
    <3>1. work'.kind = work.kind /\ work'.run = work.run /\ work'.at = "save"
      BY <1>2, <2>1, WorkAt
    <3>2. First' = First
      BY <1>1 DEF First
    <3>3. (First'.body => ~body'[First'.run]) /\ log'[First'.run] = "none" /\ mem'.retired # <<>>
      BY <1>1, <1>3, <1>5, <2>1, <3>2
    <3>4. work'.kind = "commit" =>
            /\ work'.run \in Runs /\ work'.run \notin DOMAIN mem'.runs
            /\ work'.run \notin DOMAIN disk'.runs /\ <<work'.run, "log">> \notin charged'
      BY <1>1, <1>2, <3>1 DEF WorkSound, Fresh
    <3>5. ~up' => active' = {} /\ work'.kind \in {"none", "open"}
      BY <1>1, <1>2, <3>1 DEF WorkSound
    <3> QED BY <3>1, <3>3, <3>4, <3>5 DEF WorkSound, Fresh
  <2>2. CASE work' = NoWork
    BY <1>1, <1>2, <2>2, AtRestSound DEF WorkSound
  <2> QED BY <1>1, <2>1, <2>2
<1>10. body' \in [Runs -> BOOLEAN] /\ up' \in BOOLEAN
  BY <1>1, <1>2 DEF RetentionTypeOK
<1> QED BY <1>1, <1>5, <1>6, <1>7, <1>8, <1>9, <1>10, FilesStep

\* begin_commit creates the log of a run that nobody knows yet.
LEMMA CreateLogStep ==
    ASSUME RetentionInv, NEW r \in Runs, CreateLog(r)
    PROVE  RetentionInv'
<1>1. /\ up /\ Fresh(r)
      /\ log' = [log EXCEPT ![r] = "own"] /\ work' = [kind |-> "commit", run |-> r, at |-> "commit"]
      /\ mem' = mem /\ disk' = disk /\ charged' = charged /\ body' = body /\ up' = up
      /\ active' = active /\ finishing' = finishing
  BY DEF CreateLog
<1>2. RetentionTypeOK /\ WorkSound /\ ChargedSound
  BY DEF RetentionInv
<1>4. <<r, "log">> \notin charged /\ <<r, "body">> \notin charged
  BY <1>1, <1>2 DEF Fresh, ChargedSound
<1>5. /\ log' \in [Runs -> {"none", "own", "foreign"}] /\ log'[r] = "own"
      /\ \A x \in Runs : log[x] # "none" => log'[x] # "none"
      /\ \A x \in Runs : x # r => log'[x] = log[x]
  BY <1>1, <1>2 DEF RetentionTypeOK
<1>6. \A x \in Runs : Answerable(x, charged, log', body') => Answerable(x, charged, log, body)
  BY <1>1, <1>4, <1>5 DEF Answerable
<1>7. \A x \in DOMAIN mem.runs \cup DOMAIN disk.runs :
            (log[x] # "none" => log'[x] # "none") /\ (body[x] => body'[x])
  BY <1>1, <1>5, AtWork, LedgerShape
<1>8. Sound(disk, charged, log', body') /\ Sound(mem, charged, log', body')
  BY <1>1, <1>6, <1>7, AtWork, OtherFiles
<1>9. \A x \in active \cap DOMAIN mem.runs : log'[x] # "none"
  BY <1>1, <1>7, AtWork
<1>10. /\ work' \in [kind : {"none", "begin", "commit", "unpin", "open"}, run : Runs \cup {None},
                     at : {"none", "clean", "log", "save", "room", "commit"}]
       /\ work'.kind = "commit" /\ work'.run = r /\ work'.at = "commit"
  BY <1>1
<1>11. /\ work'.run \in Runs /\ work'.run \notin DOMAIN mem'.runs
       /\ work'.run \notin DOMAIN disk'.runs /\ <<work'.run, "log">> \notin charged'
  BY <1>1, <1>10 DEF Fresh
<1>12. up'
  BY <1>1
<1>13. log'[work'.run] # "none"
  BY <1>5, <1>10
<1>14. WorkSound'
  BY <1>1, <1>10, <1>11, <1>12, <1>13 DEF WorkSound, Fresh
<1>15. body' \in [Runs -> BOOLEAN] /\ up' \in BOOLEAN
  BY <1>1, <1>2 DEF RetentionTypeOK
<1> QED BY <1>1, <1>5, <1>8, <1>9, <1>10, <1>14, <1>15, FilesStep

\* The result of a run is stored, before its outcome is known on disk.
LEMMA CaptureStep ==
    ASSUME RetentionInv, NEW r \in Runs, Capture(r)
    PROVE  RetentionInv'
<1>1. /\ up /\ work = NoWork /\ r \in active \cap DOMAIN mem.runs
      /\ body' = [body EXCEPT ![r] = TRUE]
      /\ mem' = mem /\ disk' = disk /\ charged' = charged /\ log' = log /\ up' = up
      /\ active' = active /\ finishing' = finishing /\ work' = work
  BY DEF Capture, ownVars
<1>2. RetentionTypeOK /\ WorkSound /\ ChargedSound
  BY DEF RetentionInv
<1>3. /\ body' \in [Runs -> BOOLEAN]
      /\ \A x \in Runs : body[x] => body'[x]
      /\ \A x \in Runs : x # r => body'[x] = body[x]
  BY <1>1, <1>2 DEF RetentionTypeOK
<1>4. log[r] # "none" /\ <<r, "log">> \in charged
  BY <1>1, AtWork DEF Sound
<1>5. \A x \in Runs : Answerable(x, charged, log', body') => Answerable(x, charged, log, body)
  BY <1>1, <1>3, <1>4 DEF Answerable
<1>6. \A x \in DOMAIN mem.runs \cup DOMAIN disk.runs :
            (log[x] # "none" => log'[x] # "none") /\ (body[x] => body'[x])
  BY <1>1, <1>3, AtWork, LedgerShape
<1>7. Sound(disk, charged, log', body') /\ Sound(mem, charged, log', body')
  BY <1>1, <1>5, <1>6, AtWork, OtherFiles
<1>8. WorkSound'
  BY <1>1, AtRestSound
<1>9. \A x \in active \cap DOMAIN mem.runs : log'[x] # "none"
  BY <1>1, AtWork
<1>10. log' \in [Runs -> {"none", "own", "foreign"}] /\ up' \in BOOLEAN
  BY <1>1, <1>2 DEF RetentionTypeOK
<1> QED BY <1>1, <1>3, <1>7, <1>8, <1>9, <1>10, NoWorkTyped, FilesStep

\* A log that is replaced is still there.
LEMMA ReplaceLogStep ==
    ASSUME RetentionInv, NEW r \in Runs, ReplaceLog(r)
    PROVE  RetentionInv'
<1>1. /\ log[r] = "own" /\ work.at # "commit" /\ log' = [log EXCEPT ![r] = "foreign"]
      /\ mem' = mem /\ disk' = disk /\ charged' = charged /\ body' = body /\ up' = up
      /\ active' = active /\ finishing' = finishing /\ work' = work
  BY DEF ReplaceLog, ownVars
<1>2. RetentionTypeOK /\ WorkSound /\ Sound(disk, charged, log, body)
  BY DEF RetentionInv
<1>3. /\ log' \in [Runs -> {"none", "own", "foreign"}]
      /\ \A x \in Runs : log'[x] # "none" <=> log[x] # "none"
      /\ \A x \in Runs : log[x] = "none" => log'[x] = "none"
  BY <1>1, <1>2 DEF RetentionTypeOK
<1>4. \A x \in Runs : Answerable(x, charged, log', body') => Answerable(x, charged, log, body)
  BY <1>1, <1>3 DEF Answerable
<1>5. \A x \in DOMAIN disk.runs \cup DOMAIN mem.runs :
            (log[x] # "none" => log'[x] # "none") /\ (body[x] => body'[x])
  BY <1>1, <1>2, <1>3, LedgerShape DEF RetentionTypeOK
<1>6. Sound(disk, charged, log', body')
  BY <1>2, <1>4, <1>5, OtherFiles
<1>7. up' \/ work' # NoWork =>
             /\ up \/ work # NoWork
             /\ Sound(mem, charged, log', body')
             /\ \A x \in active \cap DOMAIN mem.runs : log'[x] # "none"
  BY <1>1, <1>4, <1>5, AtWork, OtherFiles
<1>8. WorkSound'
  <2>1. First' = First
    BY <1>1 DEF First
  <2>2. work.at = "save" => log'[First.run] = "none"
    <3> SUFFICES ASSUME work.at = "save" PROVE log'[First.run] = "none"
      OBVIOUS
    <3>1. work # NoWork /\ mem.retired # <<>> /\ log[First.run] = "none"
      BY <1>2 DEF WorkSound, NoWork
    <3>2. First.run \in Runs
      BY <3>1, FirstRetired DEF Entry
    <3> QED BY <1>3, <3>1, <3>2
  <2>3. Fresh(work.run) => /\ work'.run \notin DOMAIN mem'.runs /\ work'.run \notin DOMAIN disk'.runs
                           /\ <<work'.run, "log">> \notin charged'
    BY <1>1 DEF Fresh
  <2> QED BY <1>1, <1>2, <2>1, <2>2, <2>3 DEF WorkSound, Fresh
<1>9. body' \in [Runs -> BOOLEAN] /\ up' \in BOOLEAN
  BY <1>1, <1>2 DEF RetentionTypeOK
<1>10. work' \in [kind : {"none", "begin", "commit", "unpin", "open"}, run : Runs \cup {None},
                  at : {"none", "clean", "log", "save", "room", "commit"}]
  BY <1>1, <1>2 DEF RetentionTypeOK
<1> QED BY <1>1, <1>3, <1>6, <1>7, <1>8, <1>9, <1>10, FilesStep

\* begin_commit saves the record of the run, or takes its log away again.
LEMMA CommitStep ==
    ASSUME RetentionInv, NEW ok \in BOOLEAN, Commit(ok)
    PROVE  RetentionInv'
<1> DEFINE r == work.run
           fresh == [pinned |-> FALSE, ended |-> FALSE, body |-> FALSE]
           runs == [x \in DOMAIN mem.runs \cup {r} |-> IF x = r THEN fresh ELSE mem.runs[x]]
           M == Ledger(runs, mem.retired)
<1>1. /\ work.at = "commit" /\ work # NoWork /\ work' = NoWork /\ Save(M, ok)
      /\ \/ ok /\ mem' = M /\ active' = active \cup {r} /\ log' = log
         \/ ~ok /\ mem' = mem /\ active' = active /\ log' = [log EXCEPT ![r] = "none"]
      /\ body' = body /\ finishing' = finishing /\ up' = up
  <2>1. Referenced(disk) \subseteq charged
    BY DEF RetentionInv, ChargedSound
  <2>2. ~ok /\ UNCHANGED <<disk, charged>> => Save(M, ok)
    BY <2>1 DEF Save
  <2>3. With(work.run) = M
    BY DEF With
  <2> HIDE DEF M
  <2> QED BY <2>2, <2>3 DEF Commit, NoWork
<1>2. RetentionTypeOK /\ WorkSound /\ ChargedSound
  BY DEF RetentionInv
<1>3. /\ work.kind = "commit" /\ log[r] # "none" /\ r \in Runs /\ r \notin DOMAIN mem.runs
      /\ r \notin DOMAIN disk.runs /\ <<r, "log">> \notin charged /\ <<r, "body">> \notin charged
  BY <1>1, <1>2 DEF WorkSound, Fresh, ChargedSound
<1>4. /\ mem \in LedgerType /\ disk \in LedgerType
      /\ Sound(mem, charged, log, body) /\ Sound(disk, charged, log, body)
      /\ Retired(mem) \cap DOMAIN disk.runs = {}
      /\ \A x \in active \cap DOMAIN mem.runs : log[x] # "none"
  BY <1>1, AtWork
<1>5. fresh \in Record /\ fresh.ended = FALSE /\ fresh.body = FALSE
  BY DEF Record
<1> HIDE DEF fresh
<1>6. /\ DOMAIN mem.runs \subseteq Runs /\ mem.runs \in [DOMAIN mem.runs -> Record]
      /\ mem.retired \in Seq(Entry)
  BY <1>4, LedgerShape
<1>7. /\ DOMAIN runs = DOMAIN mem.runs \cup {r} /\ runs[r] = fresh
      /\ \A x \in DOMAIN mem.runs : runs[x] = mem.runs[x]
      /\ runs \in [DOMAIN runs -> Record]
  BY <1>3, <1>5, <1>6
<1> HIDE DEF runs, r
<1>8. M \in LedgerType /\ M.runs = runs /\ M.retired = mem.retired
  BY <1>3, <1>6, <1>7, LedgerTyped
<1> HIDE DEF M
<1>9. /\ DOMAIN M.runs = DOMAIN mem.runs \cup {r} /\ M.runs[r] = fresh
      /\ \A x \in DOMAIN mem.runs : M.runs[x] = mem.runs[x]
      /\ Retired(M) = Retired(mem)
  BY <1>7, <1>8 DEF Retired
<1> DEFINE c2 == charged \cup Referenced(M)
<1>10. /\ \A x : <<x, "log">> \in c2 <=> <<x, "log">> \in charged \/ x \in DOMAIN mem.runs \cup {r}
       /\ \A x : <<x, "body">> \in c2 <=>
                   <<x, "body">> \in charged \/ (x \in DOMAIN mem.runs /\ mem.runs[x].body)
  <2>1. \A x : <<x, "log">> \in c2 <=> <<x, "log">> \in charged \/ x \in DOMAIN mem.runs \cup {r}
    BY <1>8, <1>9, ReferencedNames
  <2>2. ASSUME NEW x
        PROVE  (<<x, "body">> \in c2) <=>
                 (<<x, "body">> \in charged \/ (x \in DOMAIN mem.runs /\ mem.runs[x].body))
    BY <1>3, <1>5, <1>8, <1>9, ReferencedNames
  <2> QED BY <2>1, <2>2
<1>11. c2 \subseteq FileNames
  BY <1>2, <1>8, ReferencedNames DEF RetentionTypeOK
<1>12. c2 = charged \cup Referenced(M)
  OBVIOUS
<1> HIDE DEF c2
<1>13. r \notin Retired(mem) /\ r \notin Retired(disk)
  BY <1>3, <1>4 DEF Sound
<1>14. Sound(M, c2, log, body) /\ Sound(M, c2, [log EXCEPT ![r] = "none"], body)
  <2> DEFINE l2 == [log EXCEPT ![r] = "none"]
  <2>1. \A x \in Runs : x # r => l2[x] = log[x]
    BY <1>2 DEF RetentionTypeOK
  <2>2. l2[r] = "none"
    BY <1>2, <1>3 DEF RetentionTypeOK
  <2> HIDE DEF l2
  <2>3. \A x \in DOMAIN mem.runs : /\ mem.runs[x].ended => log[x] # "none" /\ l2[x] # "none"
                                   /\ mem.runs[x].body => body[x]
                                   /\ <<x, "body">> \in c2 => mem.runs[x].body
    BY <1>3, <1>4, <1>6, <1>10, <2>1 DEF Sound
  <2>4. /\ M.runs[r].ended => log[r] # "none" /\ l2[r] # "none"
        /\ M.runs[r].body => body[r]
        /\ <<r, "body">> \notin c2
    BY <1>3, <1>5, <1>9, <1>10
  <2>5. DOMAIN M.runs \cap Retired(M) = {} /\ \A x \in DOMAIN M.runs \cup Retired(M) : <<x, "log">> \in c2
    BY <1>4, <1>9, <1>10, <1>13 DEF Sound
  <2>6. \A i \in DOMAIN M.retired : <<M.retired[i].run, "body">> \in c2 => M.retired[i].body
    <3>1. \A i \in DOMAIN mem.retired : mem.retired[i].run \in Retired(mem)
      BY DEF Retired
    <3>2. \A i \in DOMAIN mem.retired : mem.retired[i].run \notin DOMAIN mem.runs
      BY <1>4, <3>1 DEF Sound
    <3> QED BY <1>4, <1>8, <1>10, <3>2 DEF Sound
  <2>7. ASSUME NEW x \in Runs, Answerable(x, c2, log, body) \/ Answerable(x, c2, l2, body)
        PROVE  x \in DOMAIN M.runs \cup Retired(M)
    <3>1. CASE x \in DOMAIN mem.runs \cup {r}
      BY <1>9, <3>1
    <3>2. CASE x \notin DOMAIN mem.runs \cup {r}
      <4>1. Answerable(x, charged, log, body)
        BY <1>10, <2>1, <2>7, <3>2 DEF Answerable
      <4> QED BY <1>4, <1>9, <4>1 DEF Sound
    <3> QED BY <3>1, <3>2
  <2>8. \A x \in DOMAIN M.runs : /\ M.runs[x].ended => log[x] # "none" /\ l2[x] # "none"
                                 /\ M.runs[x].body => body[x]
                                 /\ <<x, "body">> \in c2 => M.runs[x].body
    BY <1>9, <2>3, <2>4
  <2>9. Sound(M, c2, log, body) /\ Sound(M, c2, l2, body)
    BY <2>5, <2>6, <2>7, <2>8 DEF Sound
  <2> QED BY <2>9 DEF l2
<1>15. /\ disk' \in LedgerType /\ charged' \subseteq FileNames /\ ChargedSound'
       /\ \/ disk' = M /\ charged' = c2
          \/ ~ok /\ disk' = disk /\ charged' = charged
  BY <1>1, <1>2, <1>4, <1>8, <1>12, <1>14, LedgerSaved
<1>16. ~ok => /\ log' \in [Runs -> {"none", "own", "foreign"}] /\ log'[r] = "none"
              /\ \A x \in Runs : x # r => log'[x] = log[x]
  BY <1>1, <1>2, <1>3 DEF RetentionTypeOK
<1>17. ~ok => Sound(disk, charged, log', body') /\ Sound(mem, charged, log', body')
  <2> SUFFICES ASSUME ~ok PROVE Sound(disk, charged, log', body') /\ Sound(mem, charged, log', body')
    OBVIOUS
  <2>1. \A x \in Runs : Answerable(x, charged, log', body') => Answerable(x, charged, log, body)
    BY <1>1, <1>16 DEF Answerable
  <2>2. \A x \in DOMAIN mem.runs \cup DOMAIN disk.runs : x \in Runs /\ x # r
    BY <1>3, <1>4, LedgerShape
  <2>3. \A x \in DOMAIN mem.runs \cup DOMAIN disk.runs :
           (log[x] # "none" => log'[x] # "none") /\ (body[x] => body'[x])
    BY <1>1, <1>16, <2>2
  <2> QED BY <1>4, <2>1, <2>3, OtherFiles
<1>18. ~ok => Sound(mem, c2, log', body')
  <2> SUFFICES ASSUME ~ok PROVE Sound(mem, c2, log', body')
    OBVIOUS
  <2>1. Sound(mem, charged, log', body')
    BY <1>17
  <2>2. \A x \in DOMAIN mem.runs \cup Retired(mem) : <<x, "log">> \in c2
    BY <2>1, <1>10 DEF Sound
  <2>3. \A x \in DOMAIN mem.runs : <<x, "body">> \in c2 => mem.runs[x].body
    BY <2>1, <1>10 DEF Sound
  <2>4. \A i \in DOMAIN mem.retired : <<mem.retired[i].run, "body">> \in c2 => mem.retired[i].body
    <3>1. \A i \in DOMAIN mem.retired : mem.retired[i].run \in Retired(mem)
      BY DEF Retired
    <3>2. \A i \in DOMAIN mem.retired : mem.retired[i].run \notin DOMAIN mem.runs
      BY <2>1, <3>1 DEF Sound
    <3> QED BY <2>1, <1>10, <3>2 DEF Sound
  <2>5. ASSUME NEW x \in Runs, Answerable(x, c2, log', body'), x \notin DOMAIN mem.runs
        PROVE  x \in Retired(mem)
    <3>1. x # r
      BY <1>3, <1>10, <1>16, <2>5 DEF Answerable
    <3>2. Answerable(x, charged, log', body')
      BY <1>10, <2>5, <3>1 DEF Answerable
    <3> QED BY <2>1, <2>5, <3>2 DEF Sound
  <2> QED BY <2>1, <2>2, <2>3, <2>4, <2>5 DEF Sound
<1>19. Sound(disk', charged', log', body') /\ Sound(mem', charged', log', body')
  <2>1. CASE ok
    BY <1>1, <1>14, <1>15, <2>1
  <2>2. CASE ~ok
    <3>1. log' = [log EXCEPT ![r] = "none"] /\ mem' = mem /\ body' = body
      BY <1>1, <2>2
    <3>2. Sound(M, c2, log', body')
      BY <1>14, <3>1
    <3> QED BY <1>15, <1>17, <1>18, <2>2, <3>1, <3>2
  <2> QED BY <2>1, <2>2
<1>20. Retired(mem') \cap DOMAIN disk'.runs = {}
  <2>1. Retired(mem') = Retired(mem)
    BY <1>1, <1>9
  <2>2. Retired(mem) \cap DOMAIN mem.runs = {}
    BY <1>4 DEF Sound
  <2> QED BY <1>4, <1>9, <1>13, <1>15, <2>1, <2>2
<1>21. \A x \in active' \cap DOMAIN mem'.runs : log'[x] # "none"
  <2>1. CASE ok
    BY <1>1, <1>3, <1>4, <1>9, <2>1
  <2>2. CASE ~ok
    BY <1>1, <1>3, <1>4, <1>6, <1>16, <2>2
  <2> QED BY <2>1, <2>2
<1>22. MemorySound'
  BY <1>19, <1>20, <1>21, MemorySoundNext
<1>23. up
  BY <1>2, <1>3 DEF WorkSound
<1>24. WorkSound'
  BY <1>1, <1>23, AtRestSound
<1>25. RetentionTypeOK'
  <2>1. mem' \in LedgerType
    BY <1>1, <1>4, <1>8
  <2>2. log' \in [Runs -> {"none", "own", "foreign"}] /\ active' \subseteq Runs
    BY <1>1, <1>2, <1>3, <1>16 DEF RetentionTypeOK
  <2> QED BY <1>1, <1>2, <1>15, <2>1, <2>2, NoWorkTyped DEF RetentionTypeOK
<1>26. Sound(disk, charged, log, body)'
  BY <1>19 DEF Sound, Answerable, Retired
<1> QED BY <1>15, <1>22, <1>24, <1>25, <1>26 DEF RetentionInv

\* A crash takes the memory of the host, and no file.
LEMMA CrashRetentionStep == RetentionInv /\ Crash => RetentionInv'
<1> SUFFICES ASSUME RetentionInv, Crash PROVE RetentionInv'
  OBVIOUS
<1>1. /\ up' = FALSE /\ work' = NoWork /\ active' = {} /\ finishing' = {}
      /\ mem' = Ledger(<<>>, <<>>)
      /\ disk' = disk /\ log' = log /\ body' = body /\ charged' = charged /\ swaps' = swaps
  BY DEF Crash
<1>2. mem' \in LedgerType
  <2>1. <<>> \in [{} -> Record] /\ <<>> \in Seq(Entry) /\ DOMAIN <<>> = {}
    OBVIOUS
  <2> QED BY <1>1, <2>1, LedgerTyped
<1>3. RetentionTypeOK'
  BY <1>1, <1>2, NoWorkTyped DEF RetentionInv, RetentionTypeOK
<1>4. ChargedSound' /\ MemorySound'
  BY <1>1 DEF RetentionInv, ChargedSound, MemorySound, Referenced, NoWork
<1>5. WorkSound'
  BY <1>1, AtRestSound
<1>6. Sound(disk, charged, log, body)'
  BY <1>1 DEF RetentionInv, Sound, Answerable, Retired
<1> QED BY <1>3, <1>4, <1>5, <1>6 DEF RetentionInv

\* A request comes in, or goes on to its next part, or is refused.
LEMMA WorkStep ==
    ASSUME RetentionInv,
           \/ CleanEnds \/ NoRoom \/ Opened \/ Reserve
           \/ AskBegin \/ Abandon \/ \E r \in Runs : AskUnpin(r)
    PROVE  RetentionInv'
<1>1. /\ mem' = mem /\ disk' = disk /\ charged' = charged /\ log' = log /\ body' = body
      /\ active' = active /\ finishing' = finishing
  BY DEF CleanEnds, NoRoom, Opened, Reserve, Abandon, AskBegin, AskUnpin, ownVars
<1>2. RetentionTypeOK /\ WorkSound /\ Sound(disk, charged, log, body)
  BY DEF RetentionInv
<1>3. /\ up \/ work # NoWork
      /\ up' \in BOOLEAN /\ (up' = up \/ up' = TRUE)
  <2>1. up \in BOOLEAN
    BY <1>2 DEF RetentionTypeOK
  <2>2. up' = up \/ up' = TRUE
    BY Zenon DEF CleanEnds, NoRoom, Opened, Reserve, Abandon, AskBegin, AskUnpin
  <2>3. CASE CleanEnds \/ NoRoom \/ Opened \/ Reserve
    <3>1. work.at \in {"clean", "room"}
      BY <2>3 DEF CleanEnds, NoRoom, Opened, Reserve
    <3>2. work # NoWork
      BY <3>1 DEF NoWork
    <3>3. up' \in BOOLEAN
      BY <2>1, <2>2, Zenon
    <3> QED BY <2>2, <3>2, <3>3
  <2>4. CASE AskBegin \/ Abandon \/ \E r \in Runs : AskUnpin(r)
    BY <2>4, <2>1, <2>2 DEF AskBegin, Abandon, AskUnpin
  <2> QED BY <2>3, <2>4
<1>4. /\ work' \in [kind : {"none", "begin", "commit", "unpin", "open"}, run : Runs \cup {None},
                    at : {"none", "clean", "log", "save", "room", "commit"}]
      /\ WorkSound'
  <2>1. CASE CleanEnds
    <3>1. work' = [work EXCEPT !.at = "room"] /\ up' = up
      BY <2>1 DEF CleanEnds
    <3> QED BY <1>1, <1>2, <3>1, WorkAt, WorkGoesOn
  <2>2. CASE NoRoom \/ Opened \/ Reserve \/ Abandon
    <3>1. work' = NoWork /\ (up' = up \/ up' = TRUE)
      BY <2>2 DEF NoRoom, Opened, Reserve, Abandon, Refused
    <3>2. ~up' => active' = {}
      BY <1>1, <1>2, <3>1 DEF WorkSound
    <3> QED BY <3>1, <3>2, AtRestSound, NoWorkTyped
  <2>3. ASSUME AskBegin
        PROVE  /\ work' \in [kind : {"none", "begin", "commit", "unpin", "open"}, run : Runs \cup {None},
                             at : {"none", "clean", "log", "save", "room", "commit"}]
               /\ WorkSound'
    <3>1. up' /\ work' = [kind |-> "begin", run |-> None, at |-> "clean"]
      BY <2>3 DEF AskBegin
    <3> QED BY <3>1 DEF WorkSound
  <2>4. ASSUME NEW r \in Runs, AskUnpin(r)
        PROVE  /\ work' \in [kind : {"none", "begin", "commit", "unpin", "open"}, run : Runs \cup {None},
                             at : {"none", "clean", "log", "save", "room", "commit"}]
               /\ WorkSound'
    <3>1. up' /\ work' = [kind |-> "unpin", run |-> r, at |-> "room"]
      BY <2>4 DEF AskUnpin
    <3> QED BY <3>1 DEF WorkSound
  <2> QED BY <2>1, <2>2, <2>3, <2>4
<1>5. /\ Sound(mem, charged, log', body') /\ Sound(disk, charged, log', body')
      /\ \A x \in active \cap DOMAIN mem.runs : log'[x] # "none"
  BY <1>1, <1>3, AtWork
<1>6. log' \in [Runs -> {"none", "own", "foreign"}] /\ body' \in [Runs -> BOOLEAN]
  BY <1>1, <1>2 DEF RetentionTypeOK
<1> QED BY <1>1, <1>3, <1>4, <1>5, <1>6, FilesStep

LEMMA RetentionStutter == RetentionInv /\ UNCHANGED retentionVars => RetentionInv'
<1> SUFFICES ASSUME RetentionInv, UNCHANGED retentionVars PROVE RetentionInv'
  OBVIOUS
<1> USE DEF retentionVars, ownVars
<1>1. RetentionTypeOK'
  BY DEF RetentionInv, RetentionTypeOK
<1>2. Sound(disk, charged, log, body)' /\ Sound(mem, charged, log, body)' = Sound(mem, charged, log, body)
  BY DEF RetentionInv, Sound, Answerable, Retired
<1>3. ChargedSound'
  BY DEF RetentionInv, ChargedSound, Referenced
<1>4. MemorySound'
  BY <1>2 DEF RetentionInv, MemorySound, Retired, NoWork
<1>5. WorkSound'
  BY DEF RetentionInv, WorkSound, First, Fresh, NoWork, Retired
<1> QED BY <1>1, <1>2, <1>3, <1>4, <1>5 DEF RetentionInv

LEMMA RetentionInvStep == RetentionInv /\ [RetentionNext]_retentionVars => RetentionInv'
<1> SUFFICES ASSUME RetentionInv, [RetentionNext]_retentionVars PROVE RetentionInv'
  OBVIOUS
<1>1. CASE \/ CleanEnds \/ NoRoom \/ Opened \/ Reserve
           \/ AskBegin \/ Abandon \/ \E r \in Runs : AskUnpin(r)
  BY <1>1, WorkStep
<1>2. CASE \E r \in Runs : CreateLog(r)
  BY <1>2, CreateLogStep
<1>3. CASE \E ok \in BOOLEAN : RemoveBody(ok) \/ RemoveLog(ok) \/ ForgetRetired(ok) \/ Commit(ok)
  BY <1>3, RemoveBodyStep, RemoveLogStep, ForgetRetiredStep, CommitStep
<1>4. CASE \E ok \in BOOLEAN, r \in Runs : Retire(r, ok) \/ FinishRun(r, ok)
  BY <1>4, RetireStep, FinishRunStep
<1>5. CASE \E ok \in BOOLEAN : Unpin(ok) \/ \E r \in Runs : Pin(r, ok)
  BY <1>5, PinSteps
<1>6. CASE Open \/ Crash
  BY <1>6, OpenStep, CrashRetentionStep
<1>7. CASE \E r \in Runs : Capture(r) \/ ReplaceLog(r)
  BY <1>7, CaptureStep, ReplaceLogStep
<1>8. CASE UNCHANGED retentionVars
  BY <1>8, RetentionStutter
<1> QED BY <1>1, <1>2, <1>3, <1>4, <1>5, <1>6, <1>7, <1>8 DEF RetentionNext, RotationStep

\* Whatever is saved, removed, lost in a crash or replaced from outside, the
\* ledger on disk and the one in memory each have the files they name and answer
\* for every file that was ever charged to them (run.rs:1255-1340).
THEOREM RetentionInvariance == RetentionSpec => []RetentionInv
BY RetentionInvInit, RetentionInvStep, PTL DEF RetentionSpec

\* The limits: of the ledger on disk, and of the one in memory; while room is
\* made for a run that is unpinned, that run stays where it is.
Bounded(L) == IsFiniteSet(DOMAIN L.runs) /\ Fits(L)
BoundedInv ==
    /\ Bounded(disk)
    /\ up \/ work # NoWork => Bounded(mem)
    /\ work.kind = "unpin" => work.run \in Pinned

\* The records of a ledger, counted.
LEMMA CountedRecords ==
    ASSUME NEW L, IsFiniteSet(DOMAIN L.runs)
    PROVE  /\ IsFiniteSet(OrdinaryOf(L.runs)) /\ IsFiniteSet(PinnedOf(L.runs))
           /\ Cardinality(OrdinaryOf(L.runs)) \in Nat /\ Cardinality(PinnedOf(L.runs)) \in Nat
<1>1. OrdinaryOf(L.runs) \in SUBSET DOMAIN L.runs /\ PinnedOf(L.runs) \in SUBSET DOMAIN L.runs
  BY DEF OrdinaryOf, PinnedOf
<1>2. IsFiniteSet(OrdinaryOf(L.runs)) /\ IsFiniteSet(PinnedOf(L.runs))
  BY <1>1, FS_Subset
<1> QED BY <1>2, FS_CardinalityType

\* A ledger without new records and with the same pins is as bounded.
LEMMA BoundedLess ==
    ASSUME NEW L, NEW M, Bounded(L), DOMAIN M.runs \subseteq DOMAIN L.runs,
           \A x \in DOMAIN M.runs : M.runs[x].pinned = L.runs[x].pinned
    PROVE  Bounded(M)
<1>1. IsFiniteSet(DOMAIN L.runs) /\ DOMAIN M.runs \in SUBSET DOMAIN L.runs
  BY DEF Bounded
<1>2. IsFiniteSet(DOMAIN M.runs)
  BY <1>1, FS_Subset
<1>3. /\ OrdinaryOf(M.runs) \in SUBSET OrdinaryOf(L.runs)
      /\ PinnedOf(M.runs) \in SUBSET PinnedOf(L.runs)
  BY DEF OrdinaryOf, PinnedOf
<1>4. /\ Cardinality(OrdinaryOf(M.runs)) <= Cardinality(OrdinaryOf(L.runs))
      /\ Cardinality(PinnedOf(M.runs)) <= Cardinality(PinnedOf(L.runs))
  BY <1>1, <1>3, CountedRecords, FS_Subset
<1> QED BY <1>1, <1>2, <1>4, CountedRecords, LimitsAssumption DEF Bounded, Fits

\* A ledger that differs in one pin, with room where the record goes.
LEMMA BoundedPin ==
    ASSUME NEW L, NEW M, NEW r \in DOMAIN L.runs, NEW p \in BOOLEAN, Bounded(L),
           DOMAIN M.runs = DOMAIN L.runs,
           \A x \in DOMAIN L.runs : M.runs[x].pinned = (IF x = r THEN p ELSE L.runs[x].pinned),
           IF p THEN Cardinality(PinnedOf(L.runs)) < PinLimit
                ELSE Cardinality(OrdinaryOf(L.runs)) < HistoryLimit
    PROVE  Bounded(M)
<1>1. IsFiniteSet(DOMAIN L.runs) /\ IsFiniteSet(DOMAIN M.runs)
  BY DEF Bounded
<1>2. /\ OrdinaryOf(M.runs) \in SUBSET (IF p THEN OrdinaryOf(L.runs) ELSE OrdinaryOf(L.runs) \cup {r})
      /\ PinnedOf(M.runs) \in SUBSET (IF p THEN PinnedOf(L.runs) \cup {r} ELSE PinnedOf(L.runs))
  BY DEF OrdinaryOf, PinnedOf
<1>3. /\ IsFiniteSet(OrdinaryOf(L.runs) \cup {r}) /\ IsFiniteSet(PinnedOf(L.runs) \cup {r})
      /\ Cardinality(OrdinaryOf(L.runs) \cup {r}) <= Cardinality(OrdinaryOf(L.runs)) + 1
      /\ Cardinality(PinnedOf(L.runs) \cup {r}) <= Cardinality(PinnedOf(L.runs)) + 1
  <2>1. ASSUME NEW S, IsFiniteSet(S)
        PROVE  IsFiniteSet(S \cup {r}) /\ Cardinality(S \cup {r}) <= Cardinality(S) + 1
    BY <2>1, FS_AddElement, FS_CardinalityType
  <2> QED BY <1>1, <2>1, CountedRecords
<1>4. CASE p
  <2>1. /\ Cardinality(OrdinaryOf(M.runs)) <= Cardinality(OrdinaryOf(L.runs))
        /\ Cardinality(PinnedOf(M.runs)) <= Cardinality(PinnedOf(L.runs) \cup {r})
    BY <1>1, <1>2, <1>3, <1>4, CountedRecords, FS_Subset
  <2>2. Cardinality(PinnedOf(L.runs) \cup {r}) \in Nat
    BY <1>3, FS_CardinalityType
  <2> QED BY <1>1, <1>3, <1>4, <2>1, <2>2, CountedRecords, LimitsAssumption DEF Bounded, Fits
<1>5. CASE ~p
  <2>1. /\ Cardinality(OrdinaryOf(M.runs)) <= Cardinality(OrdinaryOf(L.runs) \cup {r})
        /\ Cardinality(PinnedOf(M.runs)) <= Cardinality(PinnedOf(L.runs))
    BY <1>1, <1>2, <1>3, <1>5, CountedRecords, FS_Subset
  <2>2. Cardinality(OrdinaryOf(L.runs) \cup {r}) \in Nat
    BY <1>3, FS_CardinalityType
  <2> QED BY <1>1, <1>3, <1>5, <2>1, <2>2, CountedRecords, LimitsAssumption DEF Bounded, Fits
<1> QED BY <1>4, <1>5

\* A save of a bounded ledger.
LEMMA BoundedSaved ==
    ASSUME BoundedInv, up \/ work # NoWork, NEW M, Bounded(M),
           disk' \in {disk, M}, mem' \in {mem, M},
           work'.kind = "unpin" => work'.run \in PinnedOf(mem'.runs)
    PROVE  BoundedInv'
<1>1. Bounded(disk') /\ Bounded(mem')
  BY DEF BoundedInv
<1>2. Bounded(disk)' = Bounded(disk') /\ Bounded(mem)' = Bounded(mem')
  BY DEF Bounded, Fits, OrdinaryOf, PinnedOf
<1>3. Pinned' = PinnedOf(mem'.runs)
  BY DEF Pinned, PinnedOf, OrdinaryOf
<1> QED BY <1>1, <1>2, <1>3 DEF BoundedInv

\* The ledgers stay as they are.
LEMMA BoundedKept ==
    ASSUME BoundedInv, disk' = disk, mem' = mem, up' \/ work' # NoWork => up \/ work # NoWork,
           work'.kind = "unpin" => work'.run \in Pinned
    PROVE  BoundedInv'
<1>1. Bounded(disk)' = Bounded(disk) /\ Bounded(mem)' = Bounded(mem) /\ Pinned' = Pinned
  BY DEF Bounded, Fits, OrdinaryOf, PinnedOf, Pinned
<1> QED BY <1>1 DEF BoundedInv

\* A request that goes on, or ends.
LEMMA UnpinGoesOn ==
    ASSUME RetentionTypeOK, BoundedInv, NEW p, work' = NoWork \/ work' = [work EXCEPT !.at = p]
    PROVE  work'.kind = "unpin" => work'.run \in Pinned
BY DEF RetentionTypeOK, BoundedInv, NoWork

LEMMA BoundedInit == RetentionInit => BoundedInv
<1> SUFFICES ASSUME RetentionInit PROVE BoundedInv
  OBVIOUS
<1>1. disk = mem /\ DOMAIN mem.runs = {}
  BY DEF RetentionInit, Ledger
<1>2. OrdinaryOf(mem.runs) = {} /\ PinnedOf(mem.runs) = {}
  BY <1>1 DEF OrdinaryOf, PinnedOf
<1>3. work.kind # "unpin"
  BY DEF RetentionInit, NoWork
<1> QED BY <1>1, <1>2, <1>3, FS_EmptySet, LimitsAssumption DEF BoundedInv, Bounded, Fits

\* The journal, and the end of a run, change no pin and add no record.
LEMMA BoundedRotates ==
    ASSUME RetentionInv, BoundedInv, NEW ok \in BOOLEAN,
           ForgetRetired(ok) \/ \E r \in Runs : Retire(r, ok) \/ FinishRun(r, ok)
    PROVE  BoundedInv'
<1>1. up \/ work # NoWork
  <2>1. up \/ work.at \in {"save", "room"}
    BY DEF ForgetRetired, Retire, FinishRun
  <2> QED BY <2>1 DEF NoWork
<1>2. mem \in LedgerType /\ Bounded(mem)
  BY <1>1 DEF RetentionInv, RetentionTypeOK, BoundedInv
<1>3. CASE ForgetRetired(ok)
  <2> DEFINE M == Ledger(mem.runs, Tail(mem.retired))
  <2>1. /\ Save(M, ok) /\ (mem' = M \/ mem' = mem)
        /\ work' = NoWork \/ work' = [work EXCEPT !.at = "clean"]
    BY <1>3 DEF ForgetRetired, Refused
  <2>2. M.runs = mem.runs
    BY DEF Ledger
  <2> HIDE DEF M
  <2>3. Bounded(M)
    BY <1>2, <2>2, BoundedLess
  <2>4. work'.kind = "unpin" => work'.run \in PinnedOf(mem'.runs)
    BY <2>1, <2>2, UnpinGoesOn DEF Pinned, RetentionInv
  <2> QED BY <1>1, <2>1, <2>3, <2>4, BoundedSaved DEF Save
<1>4. ASSUME NEW r \in Runs, Retire(r, ok) PROVE BoundedInv'
  <2> DEFINE M == Ledger(Drop(mem.runs, r), Intent(r))
  <2>1. /\ Save(M, ok) /\ (mem' = M \/ mem' = mem) /\ r \notin Pinned
        /\ work' = NoWork \/ work' = [work EXCEPT !.at = "clean"]
    BY <1>4 DEF Retire, Refused, CanRotate, Pinned, PinnedOf, OrdinaryOf
  <2>2. DOMAIN M.runs = DOMAIN mem.runs \ {r} /\ \A x \in DOMAIN M.runs : M.runs[x] = mem.runs[x]
    BY DEF Ledger, Drop
  <2> HIDE DEF M
  <2>3. Bounded(M)
    BY <1>2, <2>2, BoundedLess
  <2>4. Pinned \subseteq PinnedOf(M.runs)
    BY <2>1, <2>2 DEF Pinned, PinnedOf, OrdinaryOf
  <2>5. work'.kind = "unpin" => work'.run \in PinnedOf(mem'.runs)
    BY <2>1, <2>4, UnpinGoesOn DEF Pinned, RetentionInv
  <2> QED BY <1>1, <2>1, <2>3, <2>5, BoundedSaved DEF Save
<1>5. ASSUME NEW r \in Runs, FinishRun(r, ok) PROVE BoundedInv'
  <2> DEFINE runs == [mem.runs EXCEPT ![r].ended = TRUE, ![r].body = body[r]]
             M == IF mem.runs[r].ended THEN mem ELSE Ledger(runs, mem.retired)
  <2>1. r \in DOMAIN mem.runs /\ mem' = M /\ Save(M, ok) /\ work'.kind # "unpin"
    BY <1>5 DEF FinishRun, NoWork
  <2>2. DOMAIN runs = DOMAIN mem.runs
    OBVIOUS
  <2>3. ASSUME NEW x \in DOMAIN mem.runs PROVE runs[x].pinned = mem.runs[x].pinned
    <3>1. mem.runs[x] \in Record
      BY <1>2, LedgerShape
    <3>2. CASE x # r
      BY <3>2
    <3>3. CASE x = r
      <4>1. runs[x] = [mem.runs[x] EXCEPT !.ended = TRUE, !.body = body[r]]
        BY <3>3
      <4> QED BY <3>1, <4>1 DEF Record
    <3> QED BY <3>2, <3>3
  <2> HIDE DEF runs
  <2>4. DOMAIN M.runs = DOMAIN mem.runs /\ \A x \in DOMAIN M.runs : M.runs[x].pinned = mem.runs[x].pinned
    BY <2>2, <2>3 DEF Ledger
  <2> HIDE DEF M
  <2>5. Bounded(M)
    BY <1>2, <2>4, BoundedLess
  <2> QED BY <1>1, <2>1, <2>5, BoundedSaved DEF Save
<1> QED BY <1>3, <1>4, <1>5

\* Pins look at the limits themselves, and persist does for a new record.
LEMMA BoundedPins ==
    ASSUME RetentionInv, BoundedInv, NEW ok \in BOOLEAN,
           Commit(ok) \/ Unpin(ok) \/ \E r \in Runs : Pin(r, ok)
    PROVE  BoundedInv'
<1>1. up \/ work # NoWork
  <2>1. up \/ work.at \in {"commit", "room"}
    BY DEF Commit, Unpin, Pin
  <2> QED BY <2>1 DEF NoWork
<1>2. mem \in LedgerType /\ Bounded(mem)
  BY <1>1 DEF RetentionInv, RetentionTypeOK, BoundedInv
<1>3. CASE Commit(ok)
  <2> DEFINE M == With(work.run)
  <2>1. DOMAIN M.runs = DOMAIN mem.runs \cup {work.run}
    BY DEF With, Ledger
  <2>2. IsFiniteSet(DOMAIN M.runs)
    BY <1>2, <2>1, FS_AddElement DEF Bounded
  <2>3. /\ IF Fits(M) THEN Save(M, ok) ELSE ~ok /\ UNCHANGED <<disk, charged>>
        /\ IF ok THEN mem' = M ELSE mem' = mem
        /\ work'.kind # "unpin"
    BY <1>3 DEF Commit, NoWork
  <2> HIDE DEF M
  <2>4. CASE Fits(M)
    <3>1. Bounded(M)
      BY <2>2, <2>4 DEF Bounded
    <3> QED BY <1>1, <2>3, <2>4, <3>1, BoundedSaved DEF Save
  <2>5. CASE ~Fits(M)
    BY <1>1, <2>3, <2>5, BoundedKept
  <2> QED BY <2>4, <2>5
<1>4. ASSUME NEW r, NEW p \in BOOLEAN, r \in DOMAIN mem.runs, SavePin(r, p, ok), work' = NoWork,
             IF p THEN Cardinality(Pinned) < PinLimit ELSE Cardinality(Ordinary) < HistoryLimit
      PROVE  BoundedInv'
  <2> DEFINE runs == [mem.runs EXCEPT ![r].pinned = p]
             M == Ledger(runs, mem.retired)
  <2>1. Save(M, ok) /\ (mem' = M \/ mem' = mem) /\ work'.kind # "unpin"
    BY <1>4 DEF SavePin, NoWork
  <2>2. DOMAIN runs = DOMAIN mem.runs
    OBVIOUS
  <2>3. ASSUME NEW x \in DOMAIN mem.runs
        PROVE  runs[x].pinned = (IF x = r THEN p ELSE mem.runs[x].pinned)
    <3>1. mem.runs[x] \in Record
      BY <1>2, LedgerShape
    <3>2. CASE x # r
      BY <3>2
    <3>3. CASE x = r
      <4>1. runs[x] = [mem.runs[x] EXCEPT !.pinned = p]
        BY <3>3
      <4> QED BY <3>1, <3>3, <4>1 DEF Record
    <3> QED BY <3>2, <3>3
  <2> HIDE DEF runs
  <2>4. M.runs = runs
    BY DEF Ledger
  <2> HIDE DEF M
  <2>5. Bounded(M)
    BY <1>2, <1>4, <2>2, <2>3, <2>4, BoundedPin DEF Ordinary, Pinned
  <2> QED BY <1>1, <2>1, <2>5, BoundedSaved DEF Save
<1>5. CASE Unpin(ok)
  <2>1. work.kind = "unpin" /\ ~Crowded /\ SavePin(work.run, FALSE, ok) /\ work' = NoWork
    BY <1>5 DEF Unpin
  <2>2. IsFiniteSet(DOMAIN mem.runs)
    BY <1>2 DEF Bounded
  <2>3. Cardinality(Ordinary) < HistoryLimit
    BY <2>1, <2>2, CountedRecords, LimitsAssumption DEF Crowded, Ordinary
  <2>4. work.run \in DOMAIN mem.runs
    BY <2>1 DEF BoundedInv, Pinned, PinnedOf
  <2> QED BY <1>4, <2>1, <2>3, <2>4
<1>6. ASSUME NEW r \in Runs, Pin(r, ok) PROVE BoundedInv'
  BY <1>4, <1>6 DEF Pin, Ordinary, OrdinaryOf
<1> QED BY <1>3, <1>5, <1>6

LEMMA BoundedStep == RetentionInv /\ BoundedInv /\ [RetentionNext]_retentionVars => BoundedInv'
<1> SUFFICES ASSUME RetentionInv, BoundedInv, [RetentionNext]_retentionVars PROVE BoundedInv'
  OBVIOUS
<1>1. CASE \/ CleanEnds \/ NoRoom \/ Opened \/ Reserve
           \/ \E ok \in BOOLEAN : RemoveBody(ok) \/ RemoveLog(ok)
  <2>1. /\ work.at # "none" /\ mem' = mem /\ disk' = disk
        /\ work' = NoWork \/ \E p \in {"room", "log", "save"} : work' = [work EXCEPT !.at = p]
    BY <1>1 DEF CleanEnds, NoRoom, Opened, Reserve, RemoveBody, RemoveLog, Refused
  <2>2. work'.kind = "unpin" => work'.run \in Pinned
    BY <2>1, UnpinGoesOn DEF RetentionInv
  <2>3. work # NoWork
    BY <2>1 DEF NoWork
  <2> QED BY <2>1, <2>2, <2>3, BoundedKept
<1>2. CASE \/ AskBegin \/ Abandon
           \/ \E r \in Runs : AskUnpin(r) \/ CreateLog(r) \/ Capture(r) \/ ReplaceLog(r)
  <2>1. mem' = mem /\ disk' = disk /\ (up \/ UNCHANGED <<up, work>>)
    BY <1>2 DEF AskBegin, Abandon, AskUnpin, CreateLog, Capture, ReplaceLog
  <2>2. work'.kind = "unpin" => work'.run \in Pinned
    BY <1>2 DEF AskBegin, Abandon, AskUnpin, CreateLog, Capture, ReplaceLog, BoundedInv
  <2> QED BY <2>1, <2>2, BoundedKept
<1>3. CASE \E ok \in BOOLEAN : ForgetRetired(ok) \/ \E r \in Runs : Retire(r, ok) \/ FinishRun(r, ok)
  BY <1>3, BoundedRotates
<1>4. CASE \E ok \in BOOLEAN : Commit(ok) \/ Unpin(ok) \/ \E r \in Runs : Pin(r, ok)
  BY <1>4, BoundedPins
<1>5. CASE Open
  <2>1. mem' = disk /\ disk' = disk /\ work'.kind # "unpin"
    BY <1>5 DEF Open, Save
  <2>2. Bounded(disk)' = Bounded(disk) /\ Bounded(mem)' = Bounded(disk)
    BY <2>1 DEF Bounded, Fits, OrdinaryOf, PinnedOf
  <2> QED BY <2>1, <2>2 DEF BoundedInv
<1>6. CASE Crash
  <2>1. disk' = disk /\ ~up' /\ work' = NoWork
    BY <1>6 DEF Crash
  <2>2. Bounded(disk)' = Bounded(disk)
    BY <2>1 DEF Bounded, Fits, OrdinaryOf, PinnedOf
  <2> QED BY <2>1, <2>2 DEF BoundedInv, NoWork
<1>7. CASE UNCHANGED retentionVars
  BY <1>7, BoundedKept DEF retentionVars, BoundedInv
<1> QED BY <1>1, <1>2, <1>3, <1>4, <1>5, <1>6, <1>7 DEF RetentionNext, RotationStep

\* RetentionSafety for every set of runs and every limit: a record on disk never
\* points to files that rotation removed, a crash between the removal of a record
\* and of its files leaves nothing that cleanup_retired would not find, and the
\* ledger keeps to its limits (run.rs:1255-1340, run.rs:1503).
THEOREM RetentionAlwaysSafe == RetentionSpec => []RetentionSafety
<1>1. RetentionInv /\ BoundedInv => RetentionSafety
  <2> SUFFICES ASSUME RetentionInv, BoundedInv PROVE RetentionSafety
    OBVIOUS
  <2>1. Sound(disk, charged, log, body) /\ HistoryFits
    BY DEF RetentionInv, BoundedInv, Bounded, HistoryFits
  <2> QED BY <2>1 DEF RetentionSafety, RecordsKeepFiles, NothingForgotten, Sound, Answerable
<1> QED BY <1>1, RetentionInvInit, RetentionInvStep, BoundedInit, BoundedStep, PTL DEF RetentionSpec
-----------------------------------------------------------------------------
(* The store.  From the comparison on, the holder of the lock has the      *)
(* current definition as its base, because a base that has the revision of *)
(* the file has its content too, and nobody else writes.  The same makes   *)
(* the copies beside the file recoverable: what was copied before the      *)
(* rename is still the file when it is replaced (KeptBefore).              *)

StoreTypeOK ==
  /\ file \in Definition
  /\ lock \in Processes \union {NoProcess}
  /\ job \in [Processes -> Job \union {Idle}]
  /\ acknowledged \subseteq Edits

\* Only the owner of the lock is past Acquire.
LockOwned == \A p \in Processes : job[p].step \in LockedSteps => lock = p

\* A base is an older definition or the current one.
BaseWasCurrent ==
  \A p \in Processes :
    job[p].step \notin {"idle", "replaced"} =>
      /\ job[p].base.revision \leq file.revision
      /\ job[p].base.revision = file.revision => job[p].base.applied = file.applied

Compared ==
  \A p \in Processes :
    job[p].step \in {"migrating", "keeping", "replacing"} =>
      job[p].base.revision = file.revision

\* What a process may report as saved is saved.
ReplacedIsApplied ==
  \A p \in Processes : job[p].step = "replaced" => job[p].edit \in file.applied

StoreInv == StoreTypeOK /\ LockOwned /\ BaseWasCurrent /\ Compared /\ ReplacedIsApplied

\* A definition that was there stays there, and its schema is never lowered.
FirstKept ==
  /\ first \in FirstDefinitions
  /\ first.exists => file.exists
  /\ ~file.exists => file = first /\ previous = {}
  /\ first.schema \leq file.schema

\* A base of the current revision is the current definition.
BaseIsFile(p) ==
  (job[p].step \notin {"idle", "replaced"} /\ job[p].base.revision = file.revision)
    => job[p].base = file

\* What was kept when a process comes to replace the file.
KeptBefore(p) ==
  /\ job[p].step \in {"migrating", "keeping"} => file.exists
  /\ job[p].step = "replacing" /\ file.exists => previous = {file}
  /\ (/\ job[p].step \in {"keeping", "replacing"}
      /\ file.exists /\ file.schema < Edited(job[p]).schema)
        => migrated[file.schema] # {}

BackupInv ==
  /\ migrated \in [Schemas -> SUBSET Definition]
  /\ FirstKept /\ BackupsRecoverable
  /\ \A p \in Processes : BaseIsFile(p) /\ KeptBefore(p)

USE StoreAssumption

LEMMA EditedIsDefinition ==
    ASSUME NEW j \in Job
    PROVE  /\ Edited(j) \in Definition
           /\ Edited(j).revision = j.base.revision + 1
           /\ Edited(j).applied = j.base.applied \union {j.edit}
<1>1. j.base \in Definition /\ j.edit \in Edits
  BY DEF Job
<1>2. Schema[j.edit] \in Schemas
  BY <1>1
<1>3. HigherSchema(j.base.schema, Schema[j.edit]) \in Schemas
  BY <1>1, <1>2 DEF HigherSchema, Definition
<1>4. QED
  BY <1>1, <1>3 DEF Edited, Definition

LEMMA StepOfJob ==
    ASSUME StoreTypeOK, NEW p \in Processes, job[p].step # "idle"
    PROVE  job[p] \in Job
BY DEF StoreTypeOK, Idle

LEMMA StoreInitInv == StoreInit => StoreInv
<1> SUFFICES ASSUME StoreInit PROVE StoreInv
  OBVIOUS
<1> USE DEF StoreInit
<1>1. file \in Definition
  <2>1. CASE file = [exists |-> FALSE, revision |-> 0, schema |-> 3, applied |-> {}]
    <3>1. 3 \in Schemas /\ {} \in SUBSET Edits
      BY DEF Schemas
    <3>2. QED
      BY <2>1, <3>1 DEF Definition
  <2>2. ASSUME NEW s \in Schemas,
               file = [exists |-> TRUE, revision |-> 1, schema |-> s, applied |-> {}]
        PROVE  file \in Definition
    BY <2>2 DEF Definition
  <2>3. QED
    BY <2>1, <2>2 DEF FirstDefinitions
<1>2. \A p \in Processes : job[p].step = "idle"
  BY DEF Idle
<1>3. StoreTypeOK
  BY <1>1 DEF StoreTypeOK
<1>4. QED
  BY <1>2, <1>3 DEF StoreInv, LockOwned, BaseWasCurrent, Compared, ReplacedIsApplied, LockedSteps

(***************************************************************************)
(* One lemma per kind of step: what changes of job, lock and file.         *)
(***************************************************************************)
LEMMA LeaveInv ==
    ASSUME StoreInv, NEW p \in Processes, Leave(p), file' = file,
           acknowledged' \subseteq Edits
    PROVE  StoreInv'
<1> USE DEF StoreInv
<1>1. job' = [job EXCEPT ![p] = Idle] /\ job'[p].step = "idle"
  BY DEF Leave, StoreTypeOK, Idle
<1>2. \A q \in Processes : q # p => job'[q] = job[q]
  BY <1>1 DEF StoreTypeOK
<1>3. StoreTypeOK'
  BY <1>1 DEF StoreTypeOK, Leave
<1>4. LockOwned'
  <2> SUFFICES ASSUME NEW q \in Processes, job'[q].step \in LockedSteps
               PROVE  lock' = q
    BY DEF LockOwned
  <2>1. q # p
    BY <1>1 DEF LockedSteps
  <2>2. lock = q
    BY <1>2, <2>1 DEF LockOwned
  <2>3. QED
    BY <2>1, <2>2 DEF Leave
<1>5. BaseWasCurrent' /\ Compared' /\ ReplacedIsApplied'
  BY <1>1, <1>2 DEF BaseWasCurrent, Compared, ReplacedIsApplied
<1>6. QED
  BY <1>3, <1>4, <1>5

LEMMA StoreStepInv == StoreInv /\ [StoreNext]_storeVars => StoreInv'
<1> SUFFICES ASSUME StoreInv, [StoreNext]_storeVars PROVE StoreInv'
  OBVIOUS
<1> USE DEF StoreInv
<1>1. ASSUME NEW p \in Processes, NEW e \in Edits, Load(p, e) PROVE StoreInv'
  <2> DEFINE j == [step |-> "editing", edit |-> e, base |-> file]
  <2>1. j \in Job
    BY DEF Job, StoreTypeOK
  <2>2. job' = [job EXCEPT ![p] = j] /\ job'[p] = j /\ \A q \in Processes : q # p => job'[q] = job[q]
    BY <1>1 DEF Load, StoreTypeOK
  <2>3. StoreTypeOK'
    BY <1>1, <2>1, <2>2 DEF Load, StoreTypeOK
  <2>4. LockOwned'
    BY <1>1, <2>2 DEF Load, LockOwned, LockedSteps
  <2>5. BaseWasCurrent'
    BY <1>1, <2>2 DEF Load, BaseWasCurrent, StoreTypeOK, Definition
  <2>6. Compared' /\ ReplacedIsApplied'
    BY <1>1, <2>2 DEF Load, Compared, ReplacedIsApplied
  <2>7. QED
    BY <2>3, <2>4, <2>5, <2>6
<1>2. ASSUME NEW p \in Processes, NEW step \in LockedSteps \ {"replaced"},
             job[p].step \notin {"idle", "replaced"}, At(p, step), file' = file, acknowledged' = acknowledged,
             lock' = p, lock \in {p, NoProcess},
             step \in {"migrating", "keeping", "replacing"} => job[p].base.revision = file.revision
      PROVE  StoreInv'
  <2>1. job[p] \in Job
    BY <1>2, StepOfJob
  <2>2. [job[p] EXCEPT !.step = step] \in Job
    BY <2>1 DEF Job
  <2>3. job' = [job EXCEPT ![p] = [job[p] EXCEPT !.step = step]]
    BY <1>2 DEF At
  <2>4. /\ job'[p].step = step /\ job'[p].base = job[p].base
        /\ \A q \in Processes : q # p => job'[q] = job[q]
    BY <2>1, <2>3 DEF StoreTypeOK, Job
  <2>5. StoreTypeOK'
    BY <1>2, <2>2, <2>3 DEF StoreTypeOK
  <2>6. LockOwned'
    BY <1>2, <2>4 DEF LockOwned
  <2>7. BaseWasCurrent'
    BY <1>2, <2>4 DEF BaseWasCurrent
  <2>8. Compared' /\ ReplacedIsApplied'
    BY <1>2, <2>4 DEF Compared, ReplacedIsApplied
  <2>9. QED
    BY <2>5, <2>6, <2>7, <2>8
<1>3. ASSUME NEW p \in Processes, Acquire(p) PROVE StoreInv'
  BY <1>2, <1>3 DEF Acquire, Is, LockFree, LockedSteps
<1>4. ASSUME NEW p \in Processes, Compare(p) PROVE StoreInv'
  <2> DEFINE step == IF ~file.exists THEN "replacing"
                     ELSE IF file.schema < Edited(job[p]).schema THEN "migrating"
                     ELSE "keeping"
  <2>1. step \in {"migrating", "keeping", "replacing"} /\ At(p, step)
    BY <1>4 DEF Compare
  <2>2. lock = p /\ job[p].base.revision = file.revision
    BY <1>4 DEF Compare, Is, LockOwned, LockedSteps, SameRevision
  <2> HIDE DEF step
  <2>3. QED
    BY <1>2, <1>4, <2>1, <2>2 DEF Compare, Is, LockedSteps
<1>5. ASSUME NEW p \in Processes, BackupMigration(p) PROVE StoreInv'
  <2>1. lock = p /\ job[p].base.revision = file.revision
    BY <1>5 DEF BackupMigration, Is, LockOwned, Compared, LockedSteps
  <2>2. CASE At(p, "keeping") /\ UNCHANGED lock
    BY <1>2, <1>5, <2>1, <2>2 DEF BackupMigration, Is, LockedSteps
  <2>3. CASE Leave(p)
    BY <1>5, <2>3, LeaveInv DEF BackupMigration, StoreTypeOK
  <2>4. QED
    BY <1>5, <2>2, <2>3 DEF BackupMigration
<1>6. ASSUME NEW p \in Processes, BackupPrevious(p) PROVE StoreInv'
  <2>1. lock = p /\ job[p].base.revision = file.revision
    BY <1>6 DEF BackupPrevious, Is, LockOwned, Compared, LockedSteps
  <2>2. CASE At(p, "replacing") /\ UNCHANGED lock
    BY <1>2, <1>6, <2>1, <2>2 DEF BackupPrevious, Is, LockedSteps
  <2>3. CASE Leave(p)
    BY <1>6, <2>3, LeaveInv DEF BackupPrevious, StoreTypeOK
  <2>4. QED
    BY <1>6, <2>2, <2>3 DEF BackupPrevious
<1>7. ASSUME NEW p \in Processes, Replace(p) PROVE StoreInv'
  <2>1. lock = p /\ job[p].base.revision = file.revision /\ job[p] \in Job
    BY <1>7, StepOfJob DEF Replace, Is, LockOwned, Compared, LockedSteps
  <2>2. /\ file' \in Definition /\ file'.revision = file.revision + 1
        /\ job[p].edit \in file'.applied
    BY <1>7, <2>1, EditedIsDefinition DEF Replace
  <2>3. [job[p] EXCEPT !.step = "replaced"] \in Job
    BY <2>1 DEF Job, LockedSteps
  <2>4. job' = [job EXCEPT ![p] = [job[p] EXCEPT !.step = "replaced"]]
    BY <1>7 DEF Replace, At
  <2>5. /\ job'[p].step = "replaced" /\ job'[p].edit = job[p].edit
        /\ \A q \in Processes : q # p => job'[q] = job[q]
    BY <2>1, <2>4 DEF StoreTypeOK, Job
  <2>6. \A q \in Processes : q # p => job[q].step \notin LockedSteps
    BY <2>1 DEF LockOwned
  <2>7. StoreTypeOK'
    BY <1>7, <2>2, <2>3, <2>4 DEF StoreTypeOK, Replace
  <2>8. LockOwned'
    BY <1>7, <2>1, <2>5 DEF LockOwned, Replace
  <2>9. BaseWasCurrent'
    <3>1. ASSUME NEW q \in Processes, job'[q].step \notin {"idle", "replaced"}
          PROVE  /\ job'[q].base.revision \leq file'.revision
                 /\ job'[q].base.revision # file'.revision
      <4>1. q # p /\ job'[q] = job[q]
        BY <2>5, <3>1
      <4>2. job[q].base.revision \leq file.revision /\ job[q] \in Job
        BY <3>1, <4>1, StepOfJob DEF BaseWasCurrent
      <4>3. job[q].base.revision \in Nat /\ file.revision \in Nat
        BY <4>2 DEF Job, Definition, StoreTypeOK
      <4>4. QED
        BY <2>2, <4>1, <4>2, <4>3
    <3>2. QED
      BY <3>1 DEF BaseWasCurrent
  <2>10. Compared' /\ ReplacedIsApplied'
    BY <2>2, <2>5, <2>6 DEF Compared, ReplacedIsApplied, LockedSteps
  <2>11. QED
    BY <2>7, <2>8, <2>9, <2>10
<1>8. ASSUME NEW p \in Processes, Acknowledge(p) PROVE StoreInv'
  <2>1. job[p] \in Job
    BY <1>8, StepOfJob DEF Acknowledge, Is
  <2>2. QED
    BY <1>8, <2>1, LeaveInv DEF Acknowledge, Job, StoreTypeOK
<1>9. ASSUME NEW p \in Processes, GiveUp(p) \/ FailOrEnd(p) PROVE StoreInv'
  BY <1>9, LeaveInv DEF GiveUp, FailOrEnd, StoreTypeOK
<1>10. CASE UNCHANGED storeVars
  BY <1>10 DEF storeVars, StoreTypeOK, LockOwned, BaseWasCurrent, Compared, ReplacedIsApplied
<1>11. QED
  BY <1>1, <1>3, <1>4, <1>5, <1>6, <1>7, <1>8, <1>9, <1>10 DEF StoreNext, Step

(***************************************************************************)
(* The inductive invariant of save and update: who holds workspace.lock,   *)
(* and that the definition it replaces is the one its edit was made on.    *)
(***************************************************************************)
THEOREM StoreInvariance == StoreSpec => []StoreInv
<1>1. QED
  BY StoreInitInv, StoreStepInv, PTL DEF StoreSpec

LEMMA StoreStepSimulates ==
    StoreInv /\ [StoreNext]_storeVars =>
      [Register!RegisterNext]_(Register!registerVars)
<1> SUFFICES ASSUME StoreInv, [StoreNext]_storeVars
             PROVE  Register!RegisterNext \/ UNCHANGED Register!registerVars
  OBVIOUS
<1> USE DEF Register!registerVars
<1>1. ASSUME NEW p \in Processes, Replace(p) PROVE Register!RegisterNext
  <2>1. job[p] \in Job /\ job[p].base.revision = file.revision /\ job[p].base.applied = file.applied
    BY <1>1, StepOfJob DEF StoreInv, Replace, Is, Compared, BaseWasCurrent
  <2>2. Register!Commit(job[p].edit) /\ job[p].edit \in Edits
    BY <1>1, <2>1, EditedIsDefinition DEF Replace, Register!Commit, Job
  <2>3. QED
    BY <2>2 DEF Register!RegisterNext
<1>2. ASSUME NEW p \in Processes, Acknowledge(p) PROVE Register!RegisterNext
  <2>1. job[p] \in Job /\ job[p].edit \in file.applied
    BY <1>2, StepOfJob DEF StoreInv, Acknowledge, Is, ReplacedIsApplied
  <2>2. Register!Acknowledge(job[p].edit) /\ job[p].edit \in Edits
    BY <1>2, <2>1 DEF Acknowledge, Register!Acknowledge, Job
  <2>3. QED
    BY <2>2 DEF Register!RegisterNext
<1>3. ASSUME NEW p \in Processes, NEW e \in Edits,
             \/ Load(p, e) \/ Acquire(p) \/ GiveUp(p) \/ Compare(p)
             \/ BackupMigration(p) \/ BackupPrevious(p) \/ FailOrEnd(p)
      PROVE  UNCHANGED Register!registerVars
  BY <1>3 DEF Load, Acquire, GiveUp, Compare, BackupMigration, BackupPrevious, FailOrEnd
<1>4. CASE UNCHANGED storeVars
  BY <1>4 DEF storeVars
<1>5. ASSUME NEW p \in Processes, Acquire(p) \/ GiveUp(p) \/ Compare(p) \/ BackupMigration(p)
                                  \/ BackupPrevious(p) \/ FailOrEnd(p)
      PROVE  UNCHANGED Register!registerVars
  BY <1>5 DEF Acquire, GiveUp, Compare, BackupMigration, BackupPrevious, FailOrEnd
<1>6. QED
  BY <1>1, <1>2, <1>3, <1>4, <1>5 DEF StoreNext, Step

(***************************************************************************)
(* Store::update implements the register: no acknowledged edit is lost,    *)
(* however many processes save and wherever one of them fails or ends.     *)
(***************************************************************************)
THEOREM StoreRefinesRegister == StoreSpec => StoreImplementsRegister
<1>1. StoreInit => Register!RegisterInit
  BY DEF StoreInit, FirstDefinitions, Register!RegisterInit
<1>2. QED
  BY <1>1, StoreInvariance, StoreStepSimulates, PTL
     DEF StoreSpec, StoreImplementsRegister, Register!RegisterSpec
-----------------------------------------------------------------------------
(* The copies beside the definition.                                       *)

LEMMA BackupInitInv == StoreInit => BackupInv
<1> SUFFICES ASSUME StoreInit PROVE BackupInv
  OBVIOUS
<1>1. first \in FirstDefinitions /\ file = first /\ previous = {}
  BY DEF StoreInit
<1>2. migrated = [s \in Schemas |-> {}] /\ \A p \in Processes : job[p].step = "idle"
  BY DEF StoreInit, Idle
<1>3. file \in Definition
  BY StoreInitInv DEF StoreInv, StoreTypeOK
<1>4. FirstKept
  BY <1>1, <1>3 DEF FirstKept, Definition, Schemas
<1>5. BackupsRecoverable
  BY <1>1, <1>2, <1>3 DEF BackupsRecoverable, Copies, Definition, Schemas
<1>6. \A p \in Processes : BaseIsFile(p) /\ KeptBefore(p)
  BY <1>2 DEF BaseIsFile, KeptBefore
<1> QED BY <1>2, <1>4, <1>5, <1>6 DEF BackupInv

\* A copy of the definition that is there may be added, and one may take the
\* place of the previous copy; the definition itself stays.
LEMMA CopiesKept ==
    ASSUME StoreInv, BackupInv, file' = file, first' = first,
           previous' = previous \/ (file.exists /\ previous' = {file}),
           \/ migrated' = migrated
           \/ /\ file.exists
              /\ migrated' = [migrated EXCEPT ![file.schema] = KeepOriginal(@)]
    PROVE  /\ migrated' \in [Schemas -> SUBSET Definition]
           /\ FirstKept' /\ BackupsRecoverable'
           /\ \A s \in Schemas : migrated[s] # {} => migrated'[s] # {}
<1>1. /\ file \in Definition /\ file.schema \in Schemas
      /\ migrated \in [Schemas -> SUBSET Definition]
      /\ BackupsRecoverable /\ FirstKept
  BY DEF StoreInv, StoreTypeOK, Definition, BackupInv
<1>2. \A s \in Schemas : migrated'[s] = migrated[s] \/ (migrated'[s] = {file} /\ s = file.schema
                                                        /\ file.exists)
  BY <1>1 DEF KeepOriginal
<1>3. migrated' \in [Schemas -> SUBSET Definition]
  BY <1>1 DEF KeepOriginal
<1>4. \A s \in Schemas : migrated[s] # {} => migrated'[s] # {}
  BY <1>2
<1>5. FirstKept'
  BY <1>1 DEF FirstKept
<1>6. Copies(previous)' /\ \A d \in previous' : d = file \/ d.revision + 1 = file.revision
  BY <1>1 DEF BackupsRecoverable, Copies
<1>7. file # first => previous' # {} \/ (~first.exists /\ file.revision = 1)
  BY <1>1 DEF BackupsRecoverable
<1>8. ASSUME NEW s \in Schemas PROVE Copies(migrated[s])' /\ \A d \in migrated'[s] : d.schema = s
  BY <1>1, <1>2 DEF BackupsRecoverable, Copies
<1>9. (first.exists /\ file.schema > first.schema) => migrated'[first.schema] # {}
  <2>1. first.exists => first.schema \in Schemas
    BY <1>1 DEF FirstKept, FirstDefinitions
  <2> QED BY <1>1, <1>4, <2>1 DEF BackupsRecoverable
<1>10. BackupsRecoverable'
  BY <1>6, <1>7, <1>8, <1>9 DEF BackupsRecoverable
<1> QED BY <1>3, <1>4, <1>5, <1>10

\* One process moves on, the definition stays.
LEMMA ProcessMoves ==
    ASSUME StoreInv, BackupInv, file' = file, first' = first,
           previous' = previous \/ (file.exists /\ previous' = {file}),
           \/ migrated' = migrated
           \/ /\ file.exists
              /\ migrated' = [migrated EXCEPT ![file.schema] = KeepOriginal(@)],
           NEW p \in Processes, \A q \in Processes : q # p => job'[q] = job[q],
           BaseIsFile(p)', KeptBefore(p)'
    PROVE  BackupInv'
<1>1. /\ migrated' \in [Schemas -> SUBSET Definition]
      /\ FirstKept' /\ BackupsRecoverable'
      /\ \A s \in Schemas : migrated[s] # {} => migrated'[s] # {}
  BY CopiesKept
<1>2. file.schema \in Schemas
  BY DEF StoreInv, StoreTypeOK, Definition
<1>3. ASSUME NEW q \in Processes, q # p PROVE BaseIsFile(q)' /\ KeptBefore(q)'
  <2>1. job'[q] = job[q] /\ BaseIsFile(q) /\ KeptBefore(q)
    BY <1>3 DEF BackupInv
  <2>2. BaseIsFile(q)'
    BY <2>1 DEF BaseIsFile
  <2>3. Edited(job[q])' = Edited(job[q])
    BY <2>1 DEF Edited
  <2>4. KeptBefore(q)'
    BY <1>1, <1>2, <2>1, <2>3 DEF KeptBefore
  <2> QED BY <2>2, <2>4
<1> QED BY <1>1, <1>3 DEF BackupInv

LEMMA JobMoves ==
    ASSUME StoreInv, BackupInv, NEW p \in Processes, NEW step, At(p, step),
           job[p].step # "idle"
    PROVE  /\ \A q \in Processes : q # p => job'[q] = job[q]
           /\ job'[p].step = step /\ job'[p].base = job[p].base
           /\ job'[p].edit = job[p].edit
           /\ Edited(job'[p]) = Edited(job[p])
<1>1. job \in [Processes -> Job \union {Idle}] /\ job[p] \in Job
  BY StepOfJob DEF StoreInv, StoreTypeOK
<1>2. job' = [job EXCEPT ![p] = [job[p] EXCEPT !.step = step]]
  BY DEF At
<1>3. /\ \A q \in Processes : q # p => job'[q] = job[q]
      /\ job'[p] = [job[p] EXCEPT !.step = step]
  BY <1>1, <1>2
<1>4. job'[p].step = step /\ job'[p].base = job[p].base /\ job'[p].edit = job[p].edit
  BY <1>1, <1>3 DEF Job
<1> QED BY <1>3, <1>4 DEF Edited

\* A process that leaves has nothing prepared.
LEMMA BackupLeave ==
    ASSUME StoreInv, BackupInv, file' = file, first' = first,
           previous' = previous \/ (file.exists /\ previous' = {file}),
           \/ migrated' = migrated
           \/ /\ file.exists
              /\ migrated' = [migrated EXCEPT ![file.schema] = KeepOriginal(@)],
           NEW p \in Processes, Leave(p)
    PROVE  BackupInv'
<1>1. job \in [Processes -> Job \union {Idle}]
  BY DEF StoreInv, StoreTypeOK
<1>2. job'[p].step = "idle" /\ \A q \in Processes : q # p => job'[q] = job[q]
  BY <1>1 DEF Leave, Idle
<1>3. BaseIsFile(p)' /\ KeptBefore(p)'
  BY <1>2 DEF BaseIsFile, KeptBefore
<1> QED BY <1>2, <1>3, ProcessMoves

\* The rename takes the definition to the successor of the one whose copies
\* were made.
LEMMA BackupReplace ==
    ASSUME StoreInv, BackupInv, NEW p \in Processes, Replace(p), first' = first
    PROVE  BackupInv'
<1>1. /\ job[p] \in Job /\ job[p].step = "replacing" /\ lock = p
      /\ job[p].base.revision = file.revision
  BY StepOfJob DEF StoreInv, Replace, Is, LockOwned, Compared, LockedSteps
<1>2. job[p].base = file /\ KeptBefore(p)
  BY <1>1 DEF BackupInv, BaseIsFile
<1>3. /\ file' = Edited(job[p]) /\ UNCHANGED <<previous, migrated>>
      /\ file \in Definition /\ file.schema \in Schemas
      /\ file.revision \in Nat /\ file.exists \in BOOLEAN
      /\ FirstKept /\ BackupsRecoverable /\ first \in FirstDefinitions
  BY DEF Replace, BackupInv, StoreInv, StoreTypeOK, FirstKept, Definition
<1>4. /\ file' \in Definition /\ file'.revision = file.revision + 1
      /\ file.applied \subseteq file'.applied
  BY <1>1, <1>2, <1>3, EditedIsDefinition
<1>5. file'.exists /\ file.schema \leq file'.schema /\ file'.schema \in Schemas
  <2>1. /\ file'.exists /\ file'.schema = HigherSchema(file.schema, Schema[job[p].edit])
        /\ file'.schema \in Schemas
    BY <1>2, <1>3, <1>4 DEF Edited, Definition
  <2> QED BY <1>3, <2>1 DEF HigherSchema, Schemas, Definition
<1>6. first.schema \in Schemas
  BY <1>3 DEF FirstDefinitions, Schemas
<1>7. FirstKept'
  BY <1>3, <1>5, <1>6 DEF FirstKept, Schemas
<1>8. Copies(previous)' /\ \A s \in Schemas : Copies(migrated[s])'
  BY <1>3, <1>4 DEF BackupsRecoverable, Copies
<1>9. \A d \in previous' : d = file' \/ d.revision + 1 = file'.revision
  BY <1>1, <1>2, <1>3, <1>4 DEF KeptBefore, FirstKept
<1>10. file' # first' => previous' # {} \/ (~first'.exists /\ file'.revision = 1)
  <2>1. CASE file.exists
    BY <1>1, <1>2, <1>3, <2>1 DEF KeptBefore
  <2>2. CASE ~file.exists
    <3>1. ~first.exists /\ first.revision = 0
      BY <1>3, <2>2 DEF FirstKept, FirstDefinitions
    <3> QED BY <1>3, <1>4, <2>2, <3>1 DEF FirstKept
  <2> QED BY <2>1, <2>2
<1>11. (first'.exists /\ file'.schema > first'.schema) => migrated'[first'.schema] # {}
  <2> SUFFICES ASSUME first.exists, file'.schema > first.schema
               PROVE  migrated[first.schema] # {}
    BY <1>3
  <2>1. CASE file.schema > first.schema
    BY <1>3, <2>1 DEF BackupsRecoverable
  <2>2. CASE ~(file.schema > first.schema)
    <3>1. file.schema = first.schema /\ file.exists
      BY <1>3, <1>6, <2>2 DEF FirstKept, Schemas
    <3>2. file.schema < Edited(job[p]).schema
      BY <1>3, <1>5, <1>6, <3>1 DEF Schemas
    <3> QED BY <1>1, <1>2, <3>1, <3>2 DEF KeptBefore
  <2> QED BY <2>1, <2>2
<1>12. BackupsRecoverable'
  BY <1>3, <1>8, <1>9, <1>10, <1>11 DEF BackupsRecoverable
<1>13. ASSUME NEW q \in Processes PROVE BaseIsFile(q)' /\ KeptBefore(q)'
  <2>1. job'[p].step = "replaced" /\ \A r \in Processes : r # p => job'[r] = job[r]
    BY <1>1, JobMoves DEF Replace
  <2>2. CASE q = p
    BY <2>1, <2>2 DEF BaseIsFile, KeptBefore
  <2>3. CASE q # p
    <3>1. job'[q] = job[q] /\ job[q].step \notin LockedSteps
      BY <1>1, <2>1, <2>3 DEF StoreInv, LockOwned
    <3>2. KeptBefore(q)'
      BY <3>1 DEF KeptBefore, LockedSteps
    <3>3. BaseIsFile(q)'
      <4>1. CASE job[q].step = "idle"
        BY <3>1, <4>1 DEF BaseIsFile
      <4>2. CASE job[q].step # "idle"
        <5>1. job[q] \in Job /\ job[q].base.revision \leq file.revision
          BY <3>1, <4>2, StepOfJob DEF StoreInv, BaseWasCurrent, LockedSteps
        <5>2. job[q].base.revision \in Nat
          BY <5>1 DEF Job, Definition
        <5> QED BY <1>3, <1>4, <3>1, <5>1, <5>2 DEF BaseIsFile
      <4> QED BY <4>1, <4>2
    <3> QED BY <3>2, <3>3
  <2> QED BY <2>2, <2>3
<1> QED BY <1>3, <1>7, <1>12, <1>13 DEF BackupInv

LEMMA BackupStepInv ==
    ASSUME StoreInv, BackupInv, [StoreNext]_storeVars PROVE BackupInv'
<1>1. ASSUME NEW p \in Processes, NEW e \in Edits, Load(p, e), first' = first PROVE BackupInv'
  <2>1. /\ job'[p].step = "editing" /\ job'[p].base = file
        /\ \A q \in Processes : q # p => job'[q] = job[q]
    BY <1>1 DEF Load, StoreInv, StoreTypeOK
  <2>2. BaseIsFile(p)' /\ KeptBefore(p)'
    BY <1>1, <2>1 DEF Load, BaseIsFile, KeptBefore
  <2> QED BY <1>1, <2>1, <2>2, ProcessMoves DEF Load
<1>2. ASSUME NEW p \in Processes, Acquire(p), first' = first PROVE BackupInv'
  <2>1. job'[p].step = "locked" /\ job'[p].base = job[p].base
    BY <1>2, JobMoves DEF Acquire, Is
  <2>2. BaseIsFile(p)' /\ KeptBefore(p)'
    BY <1>2, <2>1 DEF Acquire, Is, BaseIsFile, KeptBefore, BackupInv
  <2>3. \A q \in Processes : q # p => job'[q] = job[q]
    BY <1>2, JobMoves DEF Acquire, Is
  <2> QED BY <1>2, <2>2, <2>3, ProcessMoves DEF Acquire
<1>3. ASSUME NEW p \in Processes, Compare(p), first' = first PROVE BackupInv'
  <2> DEFINE step == IF ~file.exists THEN "replacing"
                     ELSE IF file.schema < Edited(job[p]).schema THEN "migrating"
                     ELSE "keeping"
  <2>1. /\ At(p, step) /\ job[p].step = "locked"
        /\ UNCHANGED <<file, previous, migrated>>
        /\ BaseIsFile(p)
    BY <1>3 DEF Compare, Is, BackupInv
  <2>2. /\ job'[p].step = step /\ job'[p].base = job[p].base
        /\ Edited(job'[p]) = Edited(job[p])
        /\ \A q \in Processes : q # p => job'[q] = job[q]
    BY <2>1, JobMoves
  <2>3. BaseIsFile(p)'
    BY <2>1, <2>2 DEF BaseIsFile
  <2>4. KeptBefore(p)'
    BY <2>1, <2>2 DEF KeptBefore
  <2> QED BY <1>3, <2>1, <2>2, <2>3, <2>4, ProcessMoves
<1>4. ASSUME NEW p \in Processes, BackupMigration(p), first' = first PROVE BackupInv'
  <2>1. /\ job[p].step = "migrating" /\ file.exists /\ UNCHANGED <<file, previous>>
        /\ migrated' = [migrated EXCEPT ![file.schema] = KeepOriginal(@)]
        /\ BaseIsFile(p) /\ file.schema \in Schemas
        /\ migrated \in [Schemas -> SUBSET Definition]
    BY <1>4 DEF BackupMigration, Is, BackupInv, KeptBefore, StoreInv, StoreTypeOK, Definition
  <2>2. CASE At(p, "keeping")
    <3>1. /\ job'[p].step = "keeping" /\ job'[p].base = job[p].base
          /\ \A q \in Processes : q # p => job'[q] = job[q]
      BY <2>1, <2>2, JobMoves
    <3>2. migrated'[file.schema] # {}
      BY <2>1 DEF KeepOriginal
    <3>3. BaseIsFile(p)' /\ KeptBefore(p)'
      BY <2>1, <3>1, <3>2 DEF BaseIsFile, KeptBefore
    <3> QED BY <1>4, <2>1, <3>1, <3>3, ProcessMoves
  <2>3. CASE Leave(p)
    BY <1>4, <2>1, <2>3, BackupLeave
  <2> QED BY <1>4, <2>2, <2>3 DEF BackupMigration
<1>5. ASSUME NEW p \in Processes, BackupPrevious(p), first' = first PROVE BackupInv'
  <2>1. /\ job[p].step = "keeping" /\ file.exists /\ UNCHANGED <<file, migrated>>
        /\ previous' = {file} /\ BaseIsFile(p) /\ KeptBefore(p)
    BY <1>5 DEF BackupPrevious, Is, BackupInv, KeptBefore
  <2>2. CASE At(p, "replacing")
    <3>1. /\ job'[p].step = "replacing" /\ job'[p].base = job[p].base
          /\ Edited(job'[p]) = Edited(job[p])
          /\ \A q \in Processes : q # p => job'[q] = job[q]
      BY <2>1, <2>2, JobMoves
    <3>2. BaseIsFile(p)' /\ KeptBefore(p)'
      BY <2>1, <3>1 DEF BaseIsFile, KeptBefore
    <3> QED BY <1>5, <2>1, <3>1, <3>2, ProcessMoves
  <2>3. CASE Leave(p)
    BY <1>5, <2>1, <2>3, BackupLeave
  <2> QED BY <1>5, <2>2, <2>3 DEF BackupPrevious
<1>6. ASSUME NEW p \in Processes, Replace(p), first' = first PROVE BackupInv'
  BY <1>6, BackupReplace
<1>7. ASSUME NEW p \in Processes, GiveUp(p) \/ Acknowledge(p) \/ FailOrEnd(p), first' = first
      PROVE  BackupInv'
  BY <1>7, BackupLeave DEF GiveUp, Acknowledge, FailOrEnd
<1>8. CASE UNCHANGED storeVars
  <2>1. UNCHANGED <<file, previous, migrated, first, job>>
    BY <1>8 DEF storeVars
  <2>2. FirstKept' /\ BackupsRecoverable'
    BY <2>1 DEF BackupInv, FirstKept, BackupsRecoverable, Copies
  <2>3. \A p \in Processes : BaseIsFile(p)' /\ KeptBefore(p)'
    BY <2>1 DEF BackupInv, BaseIsFile, KeptBefore, Edited
  <2> QED BY <2>1, <2>2, <2>3 DEF BackupInv
<1> QED
  BY <1>1, <1>2, <1>3, <1>4, <1>5, <1>6, <1>7, <1>8 DEF StoreNext, Step

(***************************************************************************)
(* Wherever a save fails or a process ends, the definition can be taken    *)
(* back: the previous file holds the current revision or the one before    *)
(* it, and the schema every run started from is kept once the definition   *)
(* left it (save: the two backups before the rename).                      *)
(***************************************************************************)
THEOREM BackupsAlwaysRecoverable == StoreSpec => []BackupsRecoverable
<1>1. BackupInv => BackupsRecoverable
  BY DEF BackupInv
<1> QED
  BY <1>1, StoreInitInv, StoreStepInv, BackupInitInv, BackupStepInv, PTL DEF StoreSpec

-----------------------------------------------------------------------------
(***************************************************************************)
(* What is executed from a project and what a synchronisation keeps, for   *)
(* all users, declarations and edits.  The definition is DefinitionSound: approvals  *)
(* are ones that a user confirmed, and the keys a declaration manages are  *)
(* those it may use (DefinitionInv); a resolution that is still current    *)
(* has no conflict (SyncInv); a declared program is known to be one        *)
(* (ShellInv).                                                             *)
(***************************************************************************)

Shaped(p) ==
    p = [shell |-> p.shell, shellTrust |-> p.shellTrust, site |-> p.site,
         terminals |-> p.terminals, tasks |-> p.tasks, binding |-> p.binding]

\* A function on these IDs with an approval each, from those confirmed.
TerminalsSound(terminals, conf) ==
    /\ terminals = [t \in DOMAIN terminals |-> terminals[t]]
    /\ \A t \in DOMAIN terminals :
          /\ terminals[t] = [directory |-> terminals[t].directory, trust |-> terminals[t].trust]
          /\ terminals[t].trust \subseteq conf
TasksSound(tasks, conf) ==
    /\ tasks = [t \in DOMAIN tasks |-> tasks[t]]
    /\ \A t \in DOMAIN tasks :
          /\ tasks[t] = [value |-> tasks[t].value, approved |-> tasks[t].approved]
          /\ tasks[t].approved \subseteq conf
BindingSound(binding) == binding # Nothing => binding.taskKeys \subseteq TaskKeys

DefinitionSound(p, conf) ==
    /\ Shaped(p)
    /\ p.shellTrust \subseteq conf
    /\ TerminalsSound(p.terminals, conf)
    /\ TasksSound(p.tasks, conf)
    /\ BindingSound(p.binding)

DefinitionInv ==
    /\ Connected => DefinitionSound(Project, confirmed)
    /\ plan # Nothing /\ plan.kind = "terminal" =>
          DefinitionSound(plan.project, confirmed) /\ plan.id \in DOMAIN plan.project.terminals

SyncInv ==
    /\ ws.revision \in Nat
    /\ declaration \in Declarations \union {NoFile}
    /\ sync = [u \in Users |-> sync[u]]
    /\ \A u \in Users : \A s \in sync[u] :
          /\ s.revision \in Nat /\ s.revision <= ws.revision
          /\ s.digest \in Declarations
          /\ s.revision = ws.revision => ~Conflict(Project, s.digest)

\* A program that a declaration names is in use only by the declaration that
\* is bound, which makes it reviewed.
ShellSound(p) ==
    p.shell.program \in DeclaredPrograms =>
       Bound(p) /\ p.binding.shellReview /\ p.shell.program = p.binding.shell.program
ShellInv ==
    /\ Connected => ShellSound(Project)
    /\ plan # Nothing /\ plan.kind = "terminal" => ShellSound(plan.project)
-----------------------------------------------------------------------------
(* The edits.                                                              *)

LEMMA TerminalsGrow ==
    ASSUME NEW terminals, NEW conf, NEW more, TerminalsSound(terminals, conf), conf \subseteq more
    PROVE  TerminalsSound(terminals, more)
BY DEF TerminalsSound

LEMMA TasksGrow ==
    ASSUME NEW tasks, NEW conf, NEW more, TasksSound(tasks, conf), conf \subseteq more
    PROVE  TasksSound(tasks, more)
BY DEF TasksSound

LEMMA SoundGrows ==
    ASSUME NEW p, NEW conf, NEW more, DefinitionSound(p, conf), conf \subseteq more PROVE DefinitionSound(p, more)
BY TerminalsGrow, TasksGrow DEF DefinitionSound

\* The record with these fields is sound when its parts are.
LEMMA SoundParts ==
    ASSUME NEW p, NEW conf, NEW shell, NEW shellTrust, NEW site, NEW terminals, NEW tasks, NEW binding,
           p = [shell |-> shell, shellTrust |-> shellTrust, site |-> site,
                terminals |-> terminals, tasks |-> tasks, binding |-> binding],
           shellTrust \subseteq conf, TerminalsSound(terminals, conf), TasksSound(tasks, conf),
           BindingSound(binding)
    PROVE  DefinitionSound(p, conf)
<1>1. /\ p.shell = shell /\ p.shellTrust = shellTrust /\ p.site = site
      /\ p.terminals = terminals /\ p.tasks = tasks /\ p.binding = binding
  OBVIOUS
<1> QED BY <1>1 DEF DefinitionSound, Shaped

LEMMA UntrustedSound ==
    ASSUME NEW terminals, NEW conf, TerminalsSound(terminals, conf)
    PROVE  TerminalsSound(Untrusted(terminals), conf)
<1> DEFINE result == Untrusted(terminals)
<1>1. /\ DOMAIN result = DOMAIN terminals /\ result = [t \in DOMAIN result |-> result[t]]
      /\ \A t \in DOMAIN terminals : result[t] = [terminals[t] EXCEPT !.trust = {}]
  BY DEF Untrusted
<1>2. ASSUME NEW t \in DOMAIN terminals
      PROVE  result[t] = [directory |-> terminals[t].directory, trust |-> {}]
  <2>1. terminals[t] = [directory |-> terminals[t].directory, trust |-> terminals[t].trust]
    BY DEF TerminalsSound
  <2>2. [terminals[t] EXCEPT !.trust = {}] = [directory |-> terminals[t].directory, trust |-> {}]
    BY <2>1
  <2> QED BY <1>1, <2>2
<1> HIDE DEF result
<1>3. ASSUME NEW t \in DOMAIN result
      PROVE  /\ result[t] = [directory |-> result[t].directory, trust |-> result[t].trust]
             /\ result[t].trust \subseteq conf
  BY <1>1, <1>2
<1> QED BY <1>1, <1>3 DEF TerminalsSound, result

\* What every edit saves, and what it leaves alone.
EditDone ==
    /\ ws'.revision = ws.revision + 1
    /\ ws'.project = Nothing \/ DefinitionSound(ws'.project, confirmed')
    /\ UNCHANGED <<plan, declaration>> /\ confirmed \subseteq confirmed'

LEMMA EditSound ==
    ASSUME NEW u, NEW project, Edit(u, project), project = Nothing \/ DefinitionSound(project, confirmed)
    PROVE  EditDone /\ sync' = sync
BY DEF Edit, Saved, EditDone, worldVars, readerVars

LEMMA NewProjectSound == ASSUME NEW site, NEW conf PROVE DefinitionSound(NewProject(site), conf)
<1> DEFINE terminals == [t \in {"own"} |-> [directory |-> DefaultDirectory, trust |-> {}]]
<1>1. TerminalsSound(terminals, conf)
  BY DEF TerminalsSound
<1>2. TasksSound(<< >>, conf)
  BY DEF TasksSound
<1>3. BindingSound(Nothing)
  BY DEF BindingSound
<1>4. NewProject(site) = [shell |-> DefaultShell, shellTrust |-> {}, site |-> site,
                          terminals |-> terminals, tasks |-> << >>, binding |-> Nothing]
  BY DEF NewProject
<1> HIDE DEF terminals
<1> QED BY <1>1, <1>2, <1>3, <1>4, SoundParts

LEMMA CreateSound == ASSUME NEW u, NEW site, Create(u, site) PROVE EditDone /\ sync' = sync
BY NewProjectSound, EditSound DEF Create, EditKeepingTasks

ProjectOf(shell, shellTrust, site, terminals, tasks, binding) ==
    [shell |-> shell, shellTrust |-> shellTrust, site |-> site,
     terminals |-> terminals, tasks |-> tasks, binding |-> binding]

LEMMA OneField ==
    ASSUME NEW a, NEW b, NEW c, NEW d, NEW e, NEW f, NEW v
    PROVE  /\ [ProjectOf(a, b, c, d, e, f) EXCEPT !.shell = v] = ProjectOf(v, b, c, d, e, f)
           /\ [ProjectOf(a, b, c, d, e, f) EXCEPT !.shellTrust = v] = ProjectOf(a, v, c, d, e, f)
           /\ [ProjectOf(a, b, c, d, e, f) EXCEPT !.site = v] = ProjectOf(a, b, v, d, e, f)
           /\ [ProjectOf(a, b, c, d, e, f) EXCEPT !.terminals = v] = ProjectOf(a, b, c, v, e, f)
           /\ [ProjectOf(a, b, c, d, e, f) EXCEPT !.tasks = v] = ProjectOf(a, b, c, d, v, f)
BY DEF ProjectOf

LEMMA FieldByField ==
    ASSUME NEW p, NEW v, NEW w, NEW x, NEW y
    PROVE  /\ [p EXCEPT !.shellTrust = v, !.terminals = w]
                 = [[p EXCEPT !.shellTrust = v] EXCEPT !.terminals = w]
           /\ [p EXCEPT !.shell = x, !.shellTrust = v, !.terminals = w]
                 = [[[p EXCEPT !.shell = x] EXCEPT !.shellTrust = v] EXCEPT !.terminals = w]
           /\ [p EXCEPT !.site = x, !.shellTrust = v, !.terminals = w, !.tasks = y]
                 = [[[[p EXCEPT !.site = x] EXCEPT !.shellTrust = v] EXCEPT !.terminals = w]
                      EXCEPT !.tasks = y]
OBVIOUS

\* A sound definition with another part of this kind.
LEMMA SoundField ==
    ASSUME NEW p, NEW conf, DefinitionSound(p, conf), NEW v
    PROVE  /\ DefinitionSound([p EXCEPT !.shell = v], conf)
           /\ DefinitionSound([p EXCEPT !.site = v], conf)
           /\ v \subseteq conf => DefinitionSound([p EXCEPT !.shellTrust = v], conf)
           /\ TerminalsSound(v, conf) => DefinitionSound([p EXCEPT !.terminals = v], conf)
           /\ TasksSound(v, conf) => DefinitionSound([p EXCEPT !.tasks = v], conf)
<1>1. /\ p.shellTrust \subseteq conf /\ TerminalsSound(p.terminals, conf)
      /\ TasksSound(p.tasks, conf) /\ BindingSound(p.binding)
      /\ p = ProjectOf(p.shell, p.shellTrust, p.site, p.terminals, p.tasks, p.binding)
  BY DEF DefinitionSound, Shaped, ProjectOf
<1>2. /\ [p EXCEPT !.shell = v] = ProjectOf(v, p.shellTrust, p.site, p.terminals, p.tasks, p.binding)
      /\ [p EXCEPT !.site = v] = ProjectOf(p.shell, p.shellTrust, v, p.terminals, p.tasks, p.binding)
      /\ [p EXCEPT !.shellTrust = v] = ProjectOf(p.shell, v, p.site, p.terminals, p.tasks, p.binding)
      /\ [p EXCEPT !.terminals = v] = ProjectOf(p.shell, p.shellTrust, p.site, v, p.tasks, p.binding)
      /\ [p EXCEPT !.tasks = v] = ProjectOf(p.shell, p.shellTrust, p.site, p.terminals, v, p.binding)
  <2> DEFINE a == p.shell
             b == p.shellTrust
             c == p.site
             d == p.terminals
             e == p.tasks
             f == p.binding
  <2>1. p = ProjectOf(a, b, c, d, e, f)
    BY <1>1
  <2> HIDE DEF a, b, c, d, e, f
  <2>2. /\ [p EXCEPT !.shell = v] = ProjectOf(v, b, c, d, e, f)
        /\ [p EXCEPT !.site = v] = ProjectOf(a, b, v, d, e, f)
        /\ [p EXCEPT !.shellTrust = v] = ProjectOf(a, v, c, d, e, f)
        /\ [p EXCEPT !.terminals = v] = ProjectOf(a, b, c, v, e, f)
        /\ [p EXCEPT !.tasks = v] = ProjectOf(a, b, c, d, v, f)
    BY <2>1, OneField
  <2> QED BY <2>2 DEF a, b, c, d, e, f
<1>3. ASSUME NEW q, NEW shell, NEW shellTrust, NEW site, NEW terminals, NEW tasks, NEW binding,
             q = ProjectOf(shell, shellTrust, site, terminals, tasks, binding),
             shellTrust \subseteq conf, TerminalsSound(terminals, conf), TasksSound(tasks, conf),
             BindingSound(binding)
      PROVE  DefinitionSound(q, conf)
  BY <1>3, SoundParts DEF ProjectOf
<1>4. DefinitionSound([p EXCEPT !.shell = v], conf) /\ DefinitionSound([p EXCEPT !.site = v], conf)
  BY <1>1, <1>2, <1>3
<1>5. v \subseteq conf => DefinitionSound([p EXCEPT !.shellTrust = v], conf)
  BY <1>1, <1>2, <1>3
<1>6. TerminalsSound(v, conf) => DefinitionSound([p EXCEPT !.terminals = v], conf)
  BY <1>1, <1>2, <1>3
<1>7. TasksSound(v, conf) => DefinitionSound([p EXCEPT !.tasks = v], conf)
  BY <1>1, <1>2, <1>3
<1> QED BY <1>4, <1>5, <1>6, <1>7

LEMMA SoundExcept ==
    ASSUME NEW p, NEW conf, DefinitionSound(p, conf), NEW value,
           NEW terminals, TerminalsSound(terminals, conf), NEW tasks, TasksSound(tasks, conf)
    PROVE  /\ DefinitionSound([p EXCEPT !.shell = value, !.shellTrust = {}, !.terminals = terminals], conf)
           /\ DefinitionSound([p EXCEPT !.site = value, !.shellTrust = {}, !.terminals = terminals, !.tasks = tasks], conf)
           /\ value \subseteq conf => DefinitionSound([p EXCEPT !.shellTrust = value, !.terminals = terminals], conf)
<1>0. {} \subseteq conf
  OBVIOUS
<1>1. DefinitionSound([p EXCEPT !.shell = value, !.shellTrust = {}, !.terminals = terminals], conf)
  <2> DEFINE q == [p EXCEPT !.shell = value]
             r == [q EXCEPT !.shellTrust = {}]
  <2>1. DefinitionSound(q, conf)
    BY SoundField
  <2>2. [p EXCEPT !.shell = value, !.shellTrust = {}, !.terminals = terminals] = [r EXCEPT !.terminals = terminals]
    BY FieldByField
  <2> HIDE DEF q
  <2>3. DefinitionSound(r, conf)
    BY <1>0, <2>1, SoundField
  <2> HIDE DEF r
  <2> QED BY <2>2, <2>3, SoundField
<1>2. DefinitionSound([p EXCEPT !.site = value, !.shellTrust = {}, !.terminals = terminals, !.tasks = tasks], conf)
  <2> DEFINE q == [p EXCEPT !.site = value]
             r == [q EXCEPT !.shellTrust = {}]
             s == [r EXCEPT !.terminals = terminals]
  <2>1. DefinitionSound(q, conf)
    BY SoundField
  <2>2. [p EXCEPT !.site = value, !.shellTrust = {}, !.terminals = terminals, !.tasks = tasks]
          = [s EXCEPT !.tasks = tasks]
    BY FieldByField
  <2> HIDE DEF q
  <2>3. DefinitionSound(r, conf)
    BY <1>0, <2>1, SoundField
  <2> HIDE DEF r
  <2>4. DefinitionSound(s, conf)
    BY <2>3, SoundField
  <2> HIDE DEF s
  <2> QED BY <2>2, <2>4, SoundField
<1>3. ASSUME value \subseteq conf
      PROVE  DefinitionSound([p EXCEPT !.shellTrust = value, !.terminals = terminals], conf)
  <2> DEFINE q == [p EXCEPT !.shellTrust = value]
  <2>1. DefinitionSound(q, conf)
    BY <1>3, SoundField
  <2>2. [p EXCEPT !.shellTrust = value, !.terminals = terminals] = [q EXCEPT !.terminals = terminals]
    BY FieldByField
  <2> HIDE DEF q
  <2> QED BY <2>1, <2>2, SoundField
<1> QED BY <1>1, <1>2, <1>3

LEMMA UpdateShellSound ==
    ASSUME NEW u, NEW shell, DefinitionInv, UpdateShell(u, shell) PROVE EditDone /\ sync' = sync
<1>1. DefinitionSound(Project, confirmed)
  BY DEF UpdateShell, DefinitionInv
<1>2. TerminalsSound(Untrusted(Project.terminals), confirmed) /\ TasksSound(Project.tasks, confirmed)
  BY <1>1, UntrustedSound DEF DefinitionSound
<1>3. DefinitionSound([Project EXCEPT !.shell = shell, !.shellTrust = {}, !.terminals = Untrusted(@)], confirmed)
  BY <1>1, <1>2, SoundExcept
<1>4. DefinitionSound(WithShell(Project, shell), confirmed)
  BY <1>1, <1>3 DEF WithShell
<1> QED BY <1>4, EditSound DEF UpdateShell, EditKeepingTasks

LEMMA SaveTerminalSound ==
    ASSUME NEW u, NEW t, NEW place, DefinitionInv, SaveTerminal(u, t, place)
    PROVE  EditDone /\ sync' = sync
<1> DEFINE old == Project.terminals
           saved == [directory |-> place,
                     trust |-> IF place = old[t].directory THEN old[t].trust ELSE {}]
           terminals == [old EXCEPT ![t] = saved]
<1>1. DefinitionSound(Project, confirmed) /\ t \in DOMAIN old
  BY DEF SaveTerminal, DefinitionInv
<1>2. TerminalsSound(old, confirmed) /\ TasksSound(Project.tasks, confirmed) /\ Shaped(Project)
  BY <1>1 DEF DefinitionSound
<1>3. TerminalsSound(terminals, confirmed)
  <2>1. /\ saved = [directory |-> saved.directory, trust |-> saved.trust]
        /\ saved.trust \subseteq confirmed
    BY <1>1, <1>2 DEF TerminalsSound
  <2>2. old = [s \in DOMAIN old |-> old[s]]
    BY <1>2 DEF TerminalsSound
  <2> HIDE DEF saved, old
  <2>3. /\ DOMAIN terminals = DOMAIN old /\ terminals = [s \in DOMAIN terminals |-> terminals[s]]
        /\ \A s \in DOMAIN old : terminals[s] = IF s = t THEN saved ELSE old[s]
    BY <1>1, <2>2
  <2> HIDE DEF terminals
  <2> QED BY <1>2, <2>1, <2>3 DEF TerminalsSound
<1>4. [Project EXCEPT !.terminals[t] =
          [directory |-> place,
           trust |-> IF place = @.directory THEN @.trust ELSE {}]]
        = [Project EXCEPT !.terminals = terminals]
  BY <1>1
<1>5. DefinitionSound([Project EXCEPT !.terminals = terminals], confirmed)
  <2> HIDE DEF terminals
  <2> QED BY <1>1, <1>3, SoundField
<1> QED BY <1>4, <1>5, EditSound DEF SaveTerminal, EditKeepingTasks

LEMMA SaveTaskSound ==
    ASSUME NEW u, NEW t, NEW v, DefinitionInv, SaveTask(u, t, v) PROVE EditDone /\ sync' = sync
<1> DEFINE old == Project.tasks
           saved == [value |-> v, approved |-> {}]
           tasks == [s \in DOMAIN old \union {t} |-> IF s = t THEN saved ELSE old[s]]
<1>1. DefinitionSound(Project, confirmed)
  BY DEF SaveTask, DefinitionInv
<1>2. TasksSound(old, confirmed)
  BY <1>1 DEF DefinitionSound
<1>3. TasksSound(tasks, confirmed)
  <2>1. saved = [value |-> saved.value, approved |-> saved.approved] /\ saved.approved \subseteq confirmed
    OBVIOUS
  <2> HIDE DEF saved, old
  <2>2. /\ DOMAIN tasks = DOMAIN old \union {t} /\ tasks = [s \in DOMAIN tasks |-> tasks[s]]
        /\ \A s \in DOMAIN tasks : tasks[s] = IF s = t THEN saved ELSE old[s]
    OBVIOUS
  <2> HIDE DEF tasks
  <2>3. ASSUME NEW s \in DOMAIN tasks
        PROVE  /\ tasks[s] = [value |-> tasks[s].value, approved |-> tasks[s].approved]
               /\ tasks[s].approved \subseteq confirmed
    <3>1. CASE s = t
      BY <2>1, <2>2, <3>1
    <3>2. CASE s # t
      BY <1>2, <2>2, <3>2 DEF TasksSound
    <3> QED BY <3>1, <3>2
  <2> QED BY <2>2, <2>3 DEF TasksSound
<1>4. DefinitionSound([Project EXCEPT !.tasks = tasks], confirmed)
  <2> HIDE DEF tasks
  <2> QED BY <1>1, <1>3, SoundField
<1> QED BY <1>4, EditSound DEF SaveTask

LEMMA RemoveTaskSound ==
    ASSUME NEW u, NEW t, DefinitionInv, RemoveTask(u, t) PROVE EditDone /\ sync' = sync
<1> DEFINE old == Project.tasks
           tasks == [s \in DOMAIN old \ {t} |-> old[s]]
<1>1. DefinitionSound(Project, confirmed)
  BY DEF RemoveTask, DefinitionInv
<1>2. TasksSound(old, confirmed)
  BY <1>1 DEF DefinitionSound
<1>3. TasksSound(tasks, confirmed)
  <2> HIDE DEF old
  <2> QED BY <1>2 DEF TasksSound
<1>4. DefinitionSound([Project EXCEPT !.tasks = tasks], confirmed)
  <2> HIDE DEF tasks
  <2> QED BY <1>1, <1>3, SoundField
<1> QED BY <1>4, EditSound DEF RemoveTask, EditKeepingTasks

LEMMA UnapprovedSound ==
    ASSUME NEW tasks, NEW conf, TasksSound(tasks, conf)
    PROVE  TasksSound([t \in DOMAIN tasks |-> [tasks[t] EXCEPT !.approved = {}]], conf)
<1> DEFINE result == [t \in DOMAIN tasks |-> [tasks[t] EXCEPT !.approved = {}]]
<1>1. /\ DOMAIN result = DOMAIN tasks /\ result = [t \in DOMAIN result |-> result[t]]
      /\ \A t \in DOMAIN tasks : result[t] = [tasks[t] EXCEPT !.approved = {}]
  OBVIOUS
<1>2. ASSUME NEW t \in DOMAIN tasks
      PROVE  result[t] = [value |-> tasks[t].value, approved |-> {}]
  <2>1. tasks[t] = [value |-> tasks[t].value, approved |-> tasks[t].approved]
    BY DEF TasksSound
  <2>2. [tasks[t] EXCEPT !.approved = {}] = [value |-> tasks[t].value, approved |-> {}]
    BY <2>1
  <2> QED BY <1>1, <2>2
<1> HIDE DEF result
<1>3. ASSUME NEW t \in DOMAIN result
      PROVE  /\ result[t] = [value |-> result[t].value, approved |-> result[t].approved]
             /\ result[t].approved \subseteq conf
  BY <1>1, <1>2
<1>4. TasksSound(result, conf)
  BY <1>1, <1>3 DEF TasksSound
<1> QED BY <1>4 DEF result

LEMMA RebindRootSound ==
    ASSUME NEW u, NEW site, DefinitionInv, RebindRoot(u, site) PROVE EditDone /\ sync' = sync
<1> DEFINE terminals == Untrusted(Project.terminals)
           tasks == [t \in DOMAIN Project.tasks |-> [Project.tasks[t] EXCEPT !.approved = {}]]
<1>1. DefinitionSound(Project, confirmed)
  BY DEF RebindRoot, DefinitionInv
<1>2. TerminalsSound(terminals, confirmed) /\ TasksSound(tasks, confirmed)
  BY <1>1, UntrustedSound, UnapprovedSound DEF DefinitionSound
<1>3. DefinitionSound([Project EXCEPT !.site = site, !.shellTrust = {}, !.terminals = terminals, !.tasks = tasks],
            confirmed)
  <2> HIDE DEF terminals, tasks
  <2> QED BY <1>1, <1>2, SoundExcept
<1> QED BY <1>3, EditSound DEF RebindRoot, EditKeepingTasks

LEMMA OtherEditsSound ==
    ASSUME NEW u, NEW site, DefinitionInv,
           RemoveDefinition(u) \/ EditOther(u) \/ BindRepository(u, site)
    PROVE  EditDone /\ sync' = sync
<1>1. CASE RemoveDefinition(u)
  BY <1>1, EditSound DEF RemoveDefinition, EditKeepingTasks
<1>2. CASE EditOther(u)
  BY <1>2, EditSound DEF EditOther, EditKeepingTasks, DefinitionInv
<1>3. CASE BindRepository(u, site)
  BY <1>3, EditSound, SoundField DEF BindRepository, EditKeepingTasks, DefinitionInv
<1> QED BY <1>1, <1>2, <1>3

\* An approval is of what was shown, which is what is confirmed.
LEMMA ApproveInitializationSound ==
    ASSUME NEW u, DefinitionInv, ApproveInitialization(u) PROVE EditDone /\ sync' = sync
<1> DEFINE old == Project.terminals
           Digest(t) == TerminalDigest(Project, t, startup)
           common == {CommonDigest(Project, startup)}
           terminals == [t \in DOMAIN old |-> [old[t] EXCEPT !.trust = {Digest(t)}]]
<1>1. DefinitionSound(Project, confirmed)
  BY DEF ApproveInitialization, DefinitionInv
<1>2. confirmed \subseteq confirmed' /\ common \subseteq confirmed'
  BY DEF ApproveInitialization, SameScopes
<1>3. \A t \in DOMAIN old : Digest(t) \in confirmed'
  <2>1. review[u].terminals = [t \in DOMAIN old |-> Digest(t)]
    BY DEF ApproveInitialization, SameScopes
  <2> HIDE DEF Digest, old
  <2>2. \A t \in DOMAIN old : t \in DOMAIN review[u].terminals /\ review[u].terminals[t] = Digest(t)
    BY <2>1
  <2> QED BY <2>2 DEF ApproveInitialization
<1>4. DefinitionSound(Project, confirmed')
  BY <1>1, <1>2, SoundGrows
<1>5. TerminalsSound(old, confirmed') /\ TasksSound(Project.tasks, confirmed')
  BY <1>4 DEF DefinitionSound
<1>6. TerminalsSound(terminals, confirmed')
  <2> HIDE DEF Digest, old
  <2>1. /\ DOMAIN terminals = DOMAIN old /\ terminals = [t \in DOMAIN terminals |-> terminals[t]]
        /\ \A t \in DOMAIN old : terminals[t] = [old[t] EXCEPT !.trust = {Digest(t)}]
    OBVIOUS
  <2>2. ASSUME NEW t \in DOMAIN old
        PROVE  terminals[t] = [directory |-> old[t].directory, trust |-> {Digest(t)}]
    <3>1. old[t] = [directory |-> old[t].directory, trust |-> old[t].trust]
      BY <1>5 DEF TerminalsSound
    <3>2. [old[t] EXCEPT !.trust = {Digest(t)}] = [directory |-> old[t].directory, trust |-> {Digest(t)}]
      BY <3>1
    <3> QED BY <2>1, <3>2
  <2> HIDE DEF terminals
  <2>3. ASSUME NEW t \in DOMAIN terminals
        PROVE  /\ terminals[t] = [directory |-> terminals[t].directory, trust |-> terminals[t].trust]
               /\ terminals[t].trust \subseteq confirmed'
    BY <1>3, <2>1, <2>2
  <2> QED BY <2>1, <2>3 DEF TerminalsSound
<1>7. DefinitionSound([Project EXCEPT !.shellTrust = common, !.terminals = terminals], confirmed')
  <2> HIDE DEF common, terminals
  <2> QED BY <1>2, <1>4, <1>5, <1>6, SoundExcept
<1>8. /\ ws'.revision = ws.revision + 1
      /\ ws'.project = [Project EXCEPT !.shellTrust = common, !.terminals = terminals]
      /\ UNCHANGED <<plan, declaration, sync>>
  BY DEF ApproveInitialization, Saved, worldVars, readerVars
<1> HIDE DEF common, terminals
<1> QED BY <1>2, <1>7, <1>8 DEF EditDone

LEMMA ApproveTaskSound ==
    ASSUME NEW u, NEW t, DefinitionInv, ApproveTask(u, t) PROVE EditDone /\ sync' = sync
<1> DEFINE old == Project.tasks
           approved == {review[u].tasks[t]}
           tasks == [old EXCEPT ![t].approved = approved]
<1>1. DefinitionSound(Project, confirmed)
  BY DEF ApproveTask, DefinitionInv
<1>2. confirmed \subseteq confirmed' /\ approved \subseteq confirmed'
  BY DEF ApproveTask
<1>3. DefinitionSound(Project, confirmed')
  BY <1>1, <1>2, SoundGrows
<1>4. TasksSound(old, confirmed')
  BY <1>3 DEF DefinitionSound
<1>5. TasksSound(tasks, confirmed')
  <2> HIDE DEF approved, old
  <2>1. old = [s \in DOMAIN old |-> old[s]]
    BY <1>4 DEF TasksSound
  <2>2. /\ DOMAIN tasks = DOMAIN old /\ tasks = [s \in DOMAIN tasks |-> tasks[s]]
        /\ \A s \in DOMAIN old : tasks[s] = IF s = t THEN [old[s] EXCEPT !.approved = approved] ELSE old[s]
    BY <2>1
  <2> HIDE DEF tasks
  <2>3. ASSUME NEW s \in DOMAIN tasks
        PROVE  /\ tasks[s] = [value |-> tasks[s].value, approved |-> tasks[s].approved]
               /\ tasks[s].approved \subseteq confirmed'
    <3>1. /\ old[s] = [value |-> old[s].value, approved |-> old[s].approved]
          /\ old[s].approved \subseteq confirmed'
      BY <1>4, <2>2 DEF TasksSound
    <3>2. [old[s] EXCEPT !.approved = approved] = [value |-> old[s].value, approved |-> approved]
      BY <3>1
    <3>3. CASE s = t
      <4>1. tasks[s] = [value |-> old[s].value, approved |-> approved]
        BY <2>2, <3>2, <3>3
      <4> QED BY <1>2, <4>1
    <3>4. CASE s # t
      BY <2>2, <3>1, <3>4
    <3> QED BY <3>3, <3>4
  <2> QED BY <2>2, <2>3 DEF TasksSound
<1>6. DefinitionSound([Project EXCEPT !.tasks = tasks], confirmed')
  <2> HIDE DEF tasks
  <2> QED BY <1>3, <1>5, SoundField
<1>7. /\ ws'.revision = ws.revision + 1
      /\ ws'.project = [Project EXCEPT !.tasks = tasks]
      /\ UNCHANGED <<plan, declaration, sync>>
  BY DEF ApproveTask, Saved, worldVars, readerVars
<1> HIDE DEF tasks
<1> QED BY <1>2, <1>6, <1>7 DEF EditDone
-----------------------------------------------------------------------------
(* The synchronisation.                                                    *)

LEMMA DeclaredKeys == ASSUME NEW d \in Declarations PROVE DOMAIN DeclaredTasks[d] \subseteq TaskKeys
<1>1. PICK keys \in SUBSET TaskKeys : DeclaredTasks[d] \in [keys -> Direct]
  BY TrustAssumption DEF TrustAssumption, TaskTables
<1> QED BY <1>1

LEMMA ResolvedTasksSound ==
    ASSUME NEW p, NEW d, NEW conf, p = Nothing \/ DefinitionSound(p, conf)
    PROVE  TasksSound(ResolvedTasks(p, d), conf)
<1> DEFINE old == IF p = Nothing THEN << >> ELSE p.tasks
           ids == DOMAIN DeclaredTasks[d] \union (DOMAIN old \ ManagedTasks(p))
           ValueOf(t) == IF t \in DOMAIN DeclaredTasks[d] THEN DeclaredTasks[d][t] ELSE old[t].value
           Approved(t) == IF t \in DOMAIN old
                          THEN KeptTrust(old[t].value = ValueOf(t), old[t].approved) ELSE {}
           tasks == [t \in ids |-> [value |-> ValueOf(t), approved |-> Approved(t)]]
<1>1. ResolvedTasks(p, d) = tasks
  BY DEF ResolvedTasks
<1>2. TasksSound(old, conf)
  BY DEF DefinitionSound, TasksSound
<1>3. ASSUME NEW t PROVE Approved(t) \subseteq conf
  BY <1>2 DEF TasksSound, KeptTrust
<1> HIDE DEF ids, old, ValueOf, Approved
<1>4. /\ DOMAIN tasks = ids /\ tasks = [t \in DOMAIN tasks |-> tasks[t]]
      /\ \A t \in ids : tasks[t] = [value |-> ValueOf(t), approved |-> Approved(t)]
  OBVIOUS
<1> HIDE DEF tasks
<1>5. TasksSound(tasks, conf)
  BY <1>3, <1>4 DEF TasksSound
<1> QED BY <1>1, <1>5

LEMMA ResolvedTerminalsSound ==
    ASSUME NEW p, NEW d, NEW conf, p = Nothing \/ DefinitionSound(p, conf)
    PROVE  TerminalsSound(ResolvedTerminals(p, d), conf)
<1> DEFINE old == IF p = Nothing THEN << >> ELSE p.terminals
           place == ResolvedDirectory(p, d)
           trust == IF "dev" \in DOMAIN old
                    THEN KeptTrust(old["dev"].directory = place, old["dev"].trust) ELSE {}
           dev == [directory |-> place, trust |-> trust]
           ids == {"dev"} \union DOMAIN old
           terminals == [t \in ids |-> IF t # "dev" THEN old[t] ELSE dev]
<1>1. ResolvedTerminals(p, d) = terminals
  BY DEF ResolvedTerminals
<1>2. TerminalsSound(old, conf)
  BY DEF DefinitionSound, TerminalsSound
<1>3. trust \subseteq conf
  BY <1>2 DEF TerminalsSound, KeptTrust
<1>4. dev = [directory |-> dev.directory, trust |-> dev.trust] /\ dev.trust \subseteq conf
  BY <1>3
<1>5. \A t \in ids : t # "dev" => t \in DOMAIN old
  OBVIOUS
<1> HIDE DEF ids, old, dev
<1>6. /\ DOMAIN terminals = ids /\ terminals = [t \in DOMAIN terminals |-> terminals[t]]
      /\ \A t \in ids : terminals[t] = IF t # "dev" THEN old[t] ELSE dev
  OBVIOUS
<1> HIDE DEF terminals
<1>7. ASSUME NEW t \in DOMAIN terminals
      PROVE  /\ terminals[t] = [directory |-> terminals[t].directory, trust |-> terminals[t].trust]
             /\ terminals[t].trust \subseteq conf
  <2>1. CASE t = "dev"
    BY <1>4, <1>6, <2>1
  <2>2. CASE t # "dev"
    BY <1>2, <1>5, <1>6, <2>2 DEF TerminalsSound
  <2> QED BY <2>1, <2>2
<1>8. TerminalsSound(terminals, conf)
  BY <1>6, <1>7 DEF TerminalsSound
<1> QED BY <1>1, <1>8

LEMMA ResolvedSound ==
    ASSUME NEW p, NEW d \in Declarations, NEW site, NEW conf, p = Nothing \/ DefinitionSound(p, conf)
    PROVE  DefinitionSound(Resolved(p, d, site), conf)
<1> DEFINE trust == IF p = Nothing THEN {} ELSE KeptTrust(ResolvedShell(p, d) = p.shell, p.shellTrust)
<1>1. trust \subseteq conf
  BY DEF DefinitionSound, KeptTrust
<1>2. BindingSound(NewBinding(p, d))
  <2>1. ManagedTasks(p) \subseteq TaskKeys
    BY DEF DefinitionSound, BindingSound, ManagedTasks, Bound
  <2>2. DOMAIN DeclaredTasks[d] \subseteq TaskKeys
    BY DeclaredKeys
  <2>3. NewBinding(p, d).taskKeys = ManagedTasks(p) \union DOMAIN DeclaredTasks[d]
    BY DEF NewBinding
  <2> QED BY <2>1, <2>2, <2>3 DEF BindingSound
<1>3. Resolved(p, d, site) =
        [shell |-> ResolvedShell(p, d), shellTrust |-> trust, site |-> site,
         terminals |-> ResolvedTerminals(p, d), tasks |-> ResolvedTasks(p, d),
         binding |-> NewBinding(p, d)]
  BY DEF Resolved
<1> HIDE DEF trust
<1> QED BY <1>1, <1>2, <1>3, ResolvedTasksSound, ResolvedTerminalsSound, SoundParts

\* A synchronisation saves what was resolved from the definition as it still is.
LEMMA ApplyDone ==
    ASSUME NEW u \in Users, NEW site, DefinitionInv, SyncInv, Apply(u, site)
    PROVE  /\ EditDone /\ sync' = [sync EXCEPT ![u] = {}]
           /\ \E s \in sync[u] :
                 /\ s.revision = ws.revision
                 /\ \E place : ws'.project = Resolved(Project, s.digest, place)
<1> DEFINE place == IF Connected THEN Project.site ELSE site
<1>1. PICK s \in sync[u] : s.revision = ws.revision /\ Saved(Resolved(Project, s.digest, place))
  BY DEF Apply
<1>2. /\ ws'.revision = ws.revision + 1 /\ ws'.project = Resolved(Project, s.digest, place)
      /\ sync' = [sync EXCEPT ![u] = {}] /\ UNCHANGED <<declaration, plan, confirmed>>
  BY <1>1 DEF Apply, Saved, worldVars
<1>3. s \in sync[u] /\ s.digest \in Declarations
  BY <1>1 DEF SyncInv
<1>4. Project = Nothing \/ DefinitionSound(Project, confirmed)
  BY DEF DefinitionInv, Connected
<1> HIDE DEF place
<1>5. DefinitionSound(ws'.project, confirmed)
  BY <1>2, <1>3, <1>4, ResolvedSound
<1>6. EditDone
  BY <1>2, <1>5 DEF EditDone
<1> QED BY <1>1, <1>2, <1>3, <1>6
-----------------------------------------------------------------------------
(* The invariants of the definition and of what is about to be applied.    *)

\* A user either only reads, or saves an edit of a definition that is sound.
LEMMA UserStepDone ==
    ASSUME DefinitionInv, SyncInv, NEW u \in Users, UserStep(u)
    PROVE  \/ Look(u) \/ Resolve(u)
           \/ EditDone /\ sync' = sync
           \/ \E site \in Sites : Apply(u, site) /\ EditDone /\ sync' = [sync EXCEPT ![u] = {}]
<1>1. CASE ApproveInitialization(u)
  BY <1>1, ApproveInitializationSound
<1>2. CASE RemoveDefinition(u) \/ EditOther(u)
  BY <1>2, OtherEditsSound
<1>3. ASSUME NEW site \in Sites,
             Create(u, site) \/ BindRepository(u, site) \/ RebindRoot(u, site)
      PROVE  EditDone /\ sync' = sync
  BY <1>3, CreateSound, OtherEditsSound, RebindRootSound
<1>4. ASSUME NEW site \in Sites, Apply(u, site)
      PROVE  Apply(u, site) /\ EditDone /\ sync' = [sync EXCEPT ![u] = {}]
  BY <1>4, ApplyDone
<1>5. ASSUME NEW shell, UpdateShell(u, shell) PROVE EditDone /\ sync' = sync
  BY <1>5, UpdateShellSound
<1>6. ASSUME NEW t, NEW d, SaveTerminal(u, t, d) PROVE EditDone /\ sync' = sync
  BY <1>6, SaveTerminalSound
<1>7. ASSUME NEW t, RemoveTask(u, t) \/ ApproveTask(u, t) PROVE EditDone /\ sync' = sync
  BY <1>7, RemoveTaskSound, ApproveTaskSound
<1>8. ASSUME NEW t, NEW v, SaveTask(u, t, v) PROVE EditDone /\ sync' = sync
  BY <1>8, SaveTaskSound
<1> QED BY <1>1, <1>2, <1>3, <1>4, <1>5, <1>6, <1>7, <1>8 DEF UserStep

LEMMA InitialProject ==
    ASSUME TrustInit PROVE Project = Nothing \/ \E site \in Sites : Project = NewProject(site)
<1>1. PICK site \in Sites :
         ws \in {[revision |-> 1, project |-> p] : p \in {Nothing, NewProject(site)}}
  BY DEF TrustInit
<1>2. PICK p \in {Nothing, NewProject(site)} : ws = [revision |-> 1, project |-> p]
  BY <1>1
<1>3. Project = p
  BY <1>2 DEF Project
<1> QED BY <1>3

LEMMA DefinitionInit == TrustInit => DefinitionInv
<1> SUFFICES ASSUME TrustInit PROVE DefinitionInv
  OBVIOUS
<1>1. plan = Nothing
  BY DEF TrustInit
<1> QED BY <1>1, InitialProject, NewProjectSound DEF DefinitionInv, Connected

LEMMA EditKeepsDefinition == ASSUME DefinitionInv, EditDone PROVE DefinitionInv'
<1>1. Connected' => DefinitionSound(Project', confirmed')
  BY DEF EditDone, Connected, Project
<1>2. plan' # Nothing /\ plan'.kind = "terminal" =>
        DefinitionSound(plan'.project, confirmed') /\ plan'.id \in DOMAIN plan'.project.terminals
  BY SoundGrows DEF EditDone, DefinitionInv
<1> QED BY <1>1, <1>2 DEF DefinitionInv

\* The steps that save nothing.
SameDefinition == UNCHANGED <<ws, confirmed>>

LEMMA DefinitionStep ==
    ASSUME DefinitionInv, SyncInv, [TrustNext]_trustVars PROVE DefinitionInv'
<1>1. ASSUME SameDefinition, plan' = plan \/ plan' = Nothing PROVE DefinitionInv'
  BY <1>1 DEF SameDefinition, DefinitionInv, Connected, Project
<1>2. ASSUME NEW u \in Users, UserStep(u) PROVE DefinitionInv'
  <2>1. CASE Look(u) \/ Resolve(u)
    BY <1>1, <2>1 DEF Look, Resolve, SameDefinition, historyVars
  <2>2. CASE EditDone
    BY <2>2, EditKeepsDefinition
  <2> QED BY <1>2, <2>1, <2>2, UserStepDone
<1>3. ASSUME NEW t, PlanTerminal(t) PROVE DefinitionInv'
  <2>1. /\ plan' = [kind |-> "terminal", id |-> t, project |-> Project]
        /\ Connected /\ t \in DOMAIN Project.terminals /\ SameDefinition
    BY <1>3 DEF PlanTerminal, SameDefinition, historyVars
  <2>2. plan'.project = Project /\ plan'.id = t
    BY <2>1
  <2> QED BY <2>1, <2>2 DEF DefinitionInv, SameDefinition, Connected, Project
<1>4. ASSUME NEW t, PlanTask(t) PROVE DefinitionInv'
  <2>1. plan' = [kind |-> "task", id |-> t] /\ SameDefinition
    BY <1>4 DEF PlanTask, SameDefinition, historyVars
  <2>2. plan'.kind = "task"
    BY <2>1
  <2> QED BY <2>1, <2>2 DEF DefinitionInv, SameDefinition, Connected, Project
<1>5. ASSUME NEW v, EditDeclaration(v) \/ EditStartup(v) PROVE DefinitionInv'
  BY <1>1, <1>5 DEF EditDeclaration, EditStartup, SameDefinition, readerVars, historyVars
<1>6. CASE LaunchTerminal \/ LaunchTask \/ Refuse \/ UNCHANGED trustVars
  BY <1>1, <1>6 DEF LaunchTerminal, LaunchTask, Refuse, trustVars, SameDefinition, historyVars
<1> QED BY <1>2, <1>3, <1>4, <1>5, <1>6 DEF TrustNext

LEMMA SyncInit == TrustInit => SyncInv
BY DEF TrustInit, SyncInv

LEMMA SyncStep ==
    ASSUME DefinitionInv, SyncInv, [TrustNext]_trustVars PROVE SyncInv'
<1>1. ASSUME UNCHANGED <<ws, sync>>, declaration' \in Declarations \union {NoFile} PROVE SyncInv'
  BY <1>1 DEF SyncInv, Project
<1>2. ASSUME EditDone, NEW u \in Users, sync' = sync \/ sync' = [sync EXCEPT ![u] = {}]
      PROVE  SyncInv'
  <2>1. /\ ws'.revision = ws.revision + 1 /\ ws.revision \in Nat /\ ws'.revision \in Nat
        /\ declaration' \in Declarations \union {NoFile}
    BY <1>2 DEF EditDone, SyncInv
  <2>2. /\ sync' = [v \in Users |-> sync'[v]]
        /\ \A v \in Users : sync'[v] \subseteq sync[v]
    BY <1>2 DEF SyncInv
  <2>3. ASSUME NEW v \in Users, NEW s \in sync'[v]
        PROVE  /\ s.revision \in Nat /\ s.revision <= ws'.revision
               /\ s.digest \in Declarations /\ s.revision # ws'.revision
    <3>1. s \in sync[v]
      BY <2>2
    <3>2. s.revision \in Nat /\ s.revision <= ws.revision /\ s.digest \in Declarations
      BY <3>1 DEF SyncInv
    <3> QED BY <2>1, <3>2
  <2> QED BY <2>1, <2>2, <2>3 DEF SyncInv
<1>3. ASSUME NEW u \in Users, Resolve(u) PROVE SyncInv'
  <2> DEFINE resolved == [revision |-> ws.revision, digest |-> declaration]
  <2>1. /\ sync' = [sync EXCEPT ![u] = {resolved}] /\ UNCHANGED <<ws, declaration>>
        /\ ~Conflict(Project, declaration) /\ declaration \in Declarations
    BY <1>3 DEF Resolve, SyncInv, worldVars
  <2>2. /\ ws.revision \in Nat /\ ws'.revision = ws.revision
        /\ declaration' \in Declarations \union {NoFile}
    BY <2>1 DEF SyncInv
  <2>3. /\ sync' = [v \in Users |-> sync'[v]]
        /\ \A v \in Users : sync'[v] = IF v = u THEN {resolved} ELSE sync[v]
    BY <2>1 DEF SyncInv
  <2>4. resolved.revision = ws.revision /\ resolved.digest = declaration
    OBVIOUS
  <2> HIDE DEF resolved
  <2>5. ASSUME NEW v \in Users, NEW s \in sync'[v]
        PROVE  /\ s.revision \in Nat /\ s.revision <= ws.revision
               /\ s.digest \in Declarations
               /\ s.revision = ws.revision => ~Conflict(Project, s.digest)
    <3>1. CASE v = u
      <4>1. s = resolved
        BY <2>3, <3>1
      <4> QED BY <2>1, <2>2, <2>4, <4>1
    <3>2. CASE v # u
      BY <2>3, <3>2 DEF SyncInv
    <3> QED BY <3>1, <3>2
  <2> QED BY <2>1, <2>2, <2>3, <2>5 DEF SyncInv, Project
<1>4. ASSUME NEW u \in Users, UserStep(u) PROVE SyncInv'
  <2>1. CASE Look(u)
    BY <1>1, <2>1 DEF Look, worldVars, SyncInv
  <2>2. CASE Resolve(u)
    BY <1>3, <2>2
  <2>3. CASE EditDone /\ (sync' = sync \/ sync' = [sync EXCEPT ![u] = {}])
    BY <1>2, <2>3
  <2> QED BY <1>4, <2>1, <2>2, <2>3, UserStepDone
<1>5. ASSUME NEW d \in Declarations \union {NoFile}, EditDeclaration(d) PROVE SyncInv'
  BY <1>1, <1>5 DEF EditDeclaration, readerVars
<1>6. ASSUME NEW t, PlanTerminal(t) \/ PlanTask(t) \/ EditStartup(t) PROVE SyncInv'
  BY <1>1, <1>6 DEF PlanTerminal, PlanTask, EditStartup, worldVars, readerVars, SyncInv
<1>7. CASE LaunchTerminal \/ LaunchTask \/ Refuse \/ UNCHANGED trustVars
  BY <1>1, <1>7 DEF LaunchTerminal, LaunchTask, Refuse, trustVars, worldVars, SyncInv
<1> QED BY <1>4, <1>5, <1>6, <1>7 DEF TrustNext

LEMMA TrustInvariant == TrustSpec => [](DefinitionInv /\ SyncInv)
<1>1. TrustInit => DefinitionInv /\ SyncInv
  BY DefinitionInit, SyncInit
<1>2. DefinitionInv /\ SyncInv /\ [TrustNext]_trustVars => (DefinitionInv /\ SyncInv)'
  BY DefinitionStep, SyncStep
<1> QED BY <1>1, <1>2, PTL DEF TrustSpec
-----------------------------------------------------------------------------
(* What a synchronisation keeps.                                           *)

\* A task the declaration does not manage comes out as it was.
LEMMA OwnTaskKept ==
    ASSUME NEW p, NEW d \in Declarations, NEW conf, p # Nothing, DefinitionSound(p, conf),
           NEW t \in DOMAIN p.tasks, t \in OwnTasks
    PROVE  t \in DOMAIN ResolvedTasks(p, d) /\ ResolvedTasks(p, d)[t] = p.tasks[t]
<1>1. t \notin TaskKeys
  BY TrustAssumption DEF TrustAssumption
<1>2. t \notin DOMAIN DeclaredTasks[d]
  BY <1>1, DeclaredKeys
<1>3. t \notin ManagedTasks(p)
  BY <1>1 DEF ManagedTasks, Bound, DefinitionSound, BindingSound
<1>4. p.tasks[t] = [value |-> p.tasks[t].value, approved |-> p.tasks[t].approved]
  BY DEF DefinitionSound, TasksSound
<1>5. /\ t \in DOMAIN ResolvedTasks(p, d)
      /\ ResolvedTasks(p, d)[t] = [value |-> p.tasks[t].value, approved |-> p.tasks[t].approved]
  BY <1>2, <1>3 DEF ResolvedTasks, KeptTrust
<1> QED BY <1>4, <1>5

\* An edit of a declared task that is still there had no conflict, so the
\* declaration says the same.
LEMMA DeclaredEditKept ==
    ASSUME NEW p, NEW d, p # Nothing, Bound(p), ~Conflict(p, d),
           NEW t \in DOMAIN p.tasks, t \in DOMAIN p.binding.tasks, EditedHere(p, t)
    PROVE  t \in DOMAIN ResolvedTasks(p, d) /\ ResolvedTasks(p, d)[t].value = p.tasks[t].value
<1>1. t \in DOMAIN DeclaredTasks[d] /\ p.tasks[t].value = DeclaredTasks[d][t]
  BY DEF EditedHere, Conflict
<1> QED BY <1>1 DEF ResolvedTasks

\* Only apply empties what a user resolved.
LEMMA AppliedIsApply ==
    ASSUME DefinitionInv, SyncInv, TrustNext, Applied
    PROVE  \E u \in Users, site \in Sites : Apply(u, site)
<1>1. PICK w \in Users : sync'[w] # sync[w] /\ sync'[w] = {}
  BY DEF Applied
<1>2. sync' # sync
  BY <1>1
<1>3. ASSUME NEW u \in Users, UserStep(u) PROVE \E site \in Sites : Apply(u, site)
  <2>1. ~Look(u)
    BY <1>2 DEF Look
  <2>2. ~Resolve(u)
    <3> SUFFICES ASSUME Resolve(u) PROVE FALSE
      OBVIOUS
    <3>1. sync' = [sync EXCEPT ![u] = {[revision |-> ws.revision, digest |-> declaration]}]
      BY DEF Resolve
    <3>2. sync = [v \in Users |-> sync[v]]
      BY DEF SyncInv
    <3>3. CASE w = u
      BY <1>1, <3>1, <3>2, <3>3
    <3>4. CASE w # u
      BY <1>1, <3>1, <3>2, <3>4
    <3> QED BY <3>3, <3>4
  <2> QED BY <1>2, <1>3, <2>1, <2>2, UserStepDone
<1>4. ASSUME NEW v, EditDeclaration(v) \/ EditStartup(v) \/ PlanTerminal(v) \/ PlanTask(v) PROVE FALSE
  BY <1>2, <1>4 DEF EditDeclaration, EditStartup, PlanTerminal, PlanTask, readerVars
<1>5. ~(LaunchTerminal \/ LaunchTask \/ Refuse)
  BY <1>2 DEF LaunchTerminal, LaunchTask, Refuse
<1> QED BY <1>3, <1>4, <1>5 DEF TrustNext

(***************************************************************************)
(* A synchronisation takes nothing from the user, whatever the declaration *)
(* says and whoever edits meanwhile: resolve_for refuses an edit it would  *)
(* lose, and apply checks that the definition is still the one resolved.   *)
(***************************************************************************)
THEOREM SyncAlwaysKeepsUserTasks == TrustSpec => SyncKeepsUserTasks
<1> DEFINE Kept ==
      Applied /\ Connected =>
        \A t \in DOMAIN Project.tasks :
          /\ t \in OwnTasks =>
               t \in DOMAIN Project'.tasks /\ Project'.tasks[t] = Project.tasks[t]
          /\ (Bound(Project) /\ t \in DOMAIN Project.binding.tasks /\ EditedHere(Project, t)) =>
               Survives(t)
<1>1. DefinitionInv /\ SyncInv /\ [TrustNext]_trustVars => [Kept]_trustVars
  <2> SUFFICES ASSUME DefinitionInv, SyncInv, TrustNext, Applied, Connected,
                      NEW t \in DOMAIN Project.tasks
               PROVE  /\ t \in OwnTasks =>
                           t \in DOMAIN Project'.tasks /\ Project'.tasks[t] = Project.tasks[t]
                      /\ (Bound(Project) /\ t \in DOMAIN Project.binding.tasks
                            /\ EditedHere(Project, t)) => Survives(t)
    OBVIOUS
  <2>1. PICK u \in Users, site \in Sites : Apply(u, site)
    BY AppliedIsApply
  <2>2. PICK s \in sync[u] :
           /\ s.revision = ws.revision
           /\ \E place : ws'.project = Resolved(Project, s.digest, place)
    BY <2>1, ApplyDone
  <2>3. s \in sync[u]
    BY <2>2
  <2>4. s.digest \in Declarations /\ ~Conflict(Project, s.digest)
    BY <2>2, <2>3 DEF SyncInv
  <2>5. Project'.tasks = ResolvedTasks(Project, s.digest)
    BY <2>2 DEF Project, Resolved
  <2>6. Project # Nothing /\ DefinitionSound(Project, confirmed)
    BY DEF Connected, DefinitionInv
  <2>7. t \in OwnTasks => t \in DOMAIN Project'.tasks /\ Project'.tasks[t] = Project.tasks[t]
    BY <2>4, <2>5, <2>6, OwnTaskKept
  <2>8. (Bound(Project) /\ t \in DOMAIN Project.binding.tasks /\ EditedHere(Project, t)) => Survives(t)
    BY <2>4, <2>5, <2>6, DeclaredEditKept DEF Survives
  <2> QED BY <2>7, <2>8
<1>2. [][Kept]_trustVars => SyncKeepsUserTasks
  BY DEF SyncKeepsUserTasks
<1> HIDE DEF Kept
<1> QED BY <1>1, <1>2, TrustInvariant, PTL DEF TrustSpec
-----------------------------------------------------------------------------
(* What is executed.  The approvals of a sound definition are confirmed    *)
(* ones, which leaves the launches that need no approval.                  *)

\* A terminal that is launched was approved, or starts natively where the
\* user chose; then a program that the declaration in force names was.
LEMMA LaunchReviewed ==
    ASSUME DefinitionInv, LaunchTerminal
    PROVE  \/ TerminalDigest(plan.project, plan.id, startup) \in confirmed
           \/ /\ IsNative(plan.project) /\ ~DirectoryReviewed(plan.project, plan.id)
              /\ ShellReviewed(plan.project) => CommonDigest(plan.project, startup) \in confirmed
<1> DEFINE p == plan.project
           t == plan.id
<1>1. CommonTrusted(p, startup) /\ TerminalTrusted(p, t, startup)
  BY DEF LaunchTerminal
<1>2. DefinitionSound(p, confirmed) /\ t \in DOMAIN p.terminals
  BY DEF LaunchTerminal, DefinitionInv
<1> HIDE DEF p, t
<1>3. p.shellTrust \subseteq confirmed /\ p.terminals[t].trust \subseteq confirmed
  BY <1>2 DEF DefinitionSound, TerminalsSound
<1>4. CASE IsNative(p) /\ ~DirectoryReviewed(p, t)
  <2>1. ShellReviewed(p) => p.shellTrust = {CommonDigest(p, startup)}
    BY <1>1, <1>4 DEF CommonTrusted
  <2> QED BY <1>3, <1>4, <2>1 DEF p, t
<1>5. CASE p.terminals[t].trust = {TerminalDigest(p, t, startup)}
  <2>1. TerminalDigest(p, t, startup) \in confirmed
    BY <1>3, <1>5
  <2> QED BY <2>1 DEF p, t
<1> QED BY <1>1, <1>4, <1>5 DEF TerminalTrusted

LEMMA TaskConfirmed ==
    ASSUME DefinitionInv, LaunchTask
    PROVE  TaskDigest(Project, plan.id, startup) \in confirmed
<1>1. /\ Connected /\ plan.id \in DOMAIN Project.tasks
      /\ Project.tasks[plan.id].approved = {TaskDigest(Project, plan.id, startup)}
  BY DEF LaunchTask, TaskApproved
<1>2. Project.tasks[plan.id].approved \subseteq confirmed
  BY <1>1 DEF DefinitionInv, DefinitionSound, TasksSound
<1> QED BY <1>1, <1>2

\* Who does not change shell or binding keeps what ShellSound says.
SameShell(p, q) == q.shell = p.shell /\ q.binding = p.binding

LEMMA SameShellSound ==
    ASSUME NEW p, NEW q, SameShell(p, q), ShellSound(p) PROVE ShellSound(q)
BY DEF SameShell, ShellSound, Bound

LEMMA ExceptShell ==
    ASSUME NEW p, Shaped(p), NEW site, NEW trust, NEW terminals, NEW tasks
    PROVE  /\ SameShell(p, [p EXCEPT !.terminals = terminals])
           /\ SameShell(p, [p EXCEPT !.tasks = tasks])
           /\ SameShell(p, [p EXCEPT !.site = site])
           /\ SameShell(p, [p EXCEPT !.shellTrust = trust, !.terminals = terminals])
           /\ SameShell(p, [p EXCEPT !.site = site, !.shellTrust = trust, !.terminals = terminals,
                                     !.tasks = tasks])
<1> DEFINE a == p.shell
           b == p.shellTrust
           c == p.site
           d == p.terminals
           e == p.tasks
           f == p.binding
<1>1. p = [shell |-> a, shellTrust |-> b, site |-> c, terminals |-> d, tasks |-> e, binding |-> f]
  BY DEF Shaped
<1>2. a = p.shell /\ f = p.binding
  OBVIOUS
<1> HIDE DEF a, b, c, d, e, f
<1>3. /\ SameShell(p, [p EXCEPT !.terminals = terminals])
      /\ SameShell(p, [p EXCEPT !.tasks = tasks])
      /\ SameShell(p, [p EXCEPT !.site = site])
  BY <1>1, <1>2 DEF SameShell
<1>4. SameShell(p, [p EXCEPT !.shellTrust = trust, !.terminals = terminals])
  BY <1>1, <1>2 DEF SameShell
<1>5. SameShell(p, [p EXCEPT !.site = site, !.shellTrust = trust, !.terminals = terminals,
                             !.tasks = tasks])
  BY <1>1, <1>2 DEF SameShell
<1> QED BY <1>3, <1>4, <1>5

\* The edits, the synchronisation and a change of shell apart.
LEMMA EditKeepsShell ==
    ASSUME DefinitionInv, ShellInv, NEW u, NEW site, NEW t, NEW v,
           \/ EditOther(u) \/ BindRepository(u, site) \/ RebindRoot(u, site)
           \/ SaveTerminal(u, t, v) \/ SaveTask(u, t, v) \/ RemoveTask(u, t)
           \/ ApproveInitialization(u) \/ ApproveTask(u, t)
    PROVE  ShellSound(Project')
<1>1. Connected
  BY DEF EditOther, BindRepository, RebindRoot, SaveTerminal, SaveTask, RemoveTask,
         ApproveInitialization, ApproveTask
<1>2. Shaped(Project) /\ ShellSound(Project)
  BY <1>1 DEF DefinitionInv, ShellInv, DefinitionSound
<1>3. SameShell(Project, Project')
  <2>1. CASE EditOther(u)
    BY <2>1 DEF EditOther, EditKeepingTasks, Edit, Saved, SameShell, Project
  <2>2. CASE BindRepository(u, site)
    <3>1. Project' = [Project EXCEPT !.site = site]
      BY <2>2 DEF BindRepository, EditKeepingTasks, Edit, Saved, Project
    <3> QED BY <1>2, <3>1, ExceptShell
  <2>3. CASE RebindRoot(u, site)
    <3>1. PICK terminals, tasks :
             Project' = [Project EXCEPT !.site = site, !.shellTrust = {}, !.terminals = terminals,
                                        !.tasks = tasks]
      BY <2>3 DEF RebindRoot, EditKeepingTasks, Edit, Saved, Project
    <3> QED BY <1>2, <3>1, ExceptShell
  <2>4. CASE SaveTerminal(u, t, v)
    <3>1. PICK terminals : Project' = [Project EXCEPT !.terminals = terminals]
      BY <2>4 DEF SaveTerminal, EditKeepingTasks, Edit, Saved, Project
    <3> QED BY <1>2, <3>1, ExceptShell
  <2>5. CASE SaveTask(u, t, v) \/ RemoveTask(u, t)
    <3>1. PICK tasks : Project' = [Project EXCEPT !.tasks = tasks]
      <4>1. CASE SaveTask(u, t, v)
        BY <4>1 DEF SaveTask, Edit, Saved, Project
      <4>2. CASE RemoveTask(u, t)
        BY <4>2 DEF RemoveTask, EditKeepingTasks, Edit, Saved, Project
      <4> QED BY <2>5, <4>1, <4>2
    <3> QED BY <1>2, <3>1, ExceptShell
  <2>6. CASE ApproveInitialization(u)
    <3>1. PICK trust, terminals :
             Project' = [Project EXCEPT !.shellTrust = trust, !.terminals = terminals]
      BY <2>6 DEF ApproveInitialization, Saved, Project
    <3> QED BY <1>2, <3>1, ExceptShell
  <2>7. CASE ApproveTask(u, t)
    <3> DEFINE tasks == [Project.tasks EXCEPT ![t].approved = {review[u].tasks[t]}]
    <3>1. Project' = [Project EXCEPT !.tasks = tasks]
      BY <2>7 DEF ApproveTask, Saved, Project
    <3> HIDE DEF tasks
    <3> QED BY <1>2, <3>1, ExceptShell
  <2> QED BY <2>1, <2>2, <2>3, <2>4, <2>5, <2>6, <2>7
<1> QED BY <1>2, <1>3, SameShellSound

\* Another shell of the user's choice is none that a declaration names.
LEMMA UpdateShellKeepsShell ==
    ASSUME DefinitionInv, ShellInv, NEW u, NEW shell, UpdateShell(u, shell)
    PROVE  ShellSound(Project')
<1> DEFINE terminals == Untrusted(Project.terminals)
           q == [Project EXCEPT !.shell = shell, !.shellTrust = {}, !.terminals = terminals]
<1>1. Shaped(Project) /\ ShellSound(Project)
  BY DEF UpdateShell, DefinitionInv, ShellInv, DefinitionSound
<1>2. Project' = WithShell(Project, shell)
  BY DEF UpdateShell, EditKeepingTasks, Edit, Saved, Project
<1>3. CASE shell = Project.shell
  BY <1>1, <1>2, <1>3 DEF WithShell
<1>4. CASE shell # Project.shell
  <2>1. Project' = q
    BY <1>2, <1>4 DEF WithShell
  <2>2. q.shell = shell /\ q.binding = Project.binding
    BY <1>1 DEF Shaped
  <2>3. shell.program \in (Programs \ DeclaredPrograms) \union {Project.shell.program}
    BY DEF UpdateShell
  <2> HIDE DEF q
  <2> QED BY <1>1, <2>1, <2>2, <2>3 DEF ShellSound, Bound
<1> QED BY <1>3, <1>4

\* A baseline with a declared program comes from a declaration that names it.
LEMMA BaselineDeclared ==
    ASSUME DefaultShell.program \notin DeclaredPrograms, NEW d,
           BaselineShell(d).program \in DeclaredPrograms
    PROVE  DeclaredShell[d] # NoShell
BY DEF BaselineShell

LEMMA NewBindingIsBinding ==
    ASSUME NEW p, NEW d \in Declarations, NEW conf, p = Nothing \/ DefinitionSound(p, conf)
    PROVE  NewBinding(p, d) \in Bindings
<1>1. BaselineShell(d) \in Shells /\ BaselineDirectory(d) \in Directories
  BY TrustAssumption DEF TrustAssumption, BaselineShell, BaselineDirectory, Shells
<1>2. DOMAIN DeclaredTasks[d] \subseteq TaskKeys /\ DeclaredTasks[d] \in TaskTables
  BY DeclaredKeys, TrustAssumption DEF TrustAssumption
<1>3. ManagedTasks(p) \subseteq TaskKeys
  BY DEF DefinitionSound, BindingSound, ManagedTasks, Bound
<1> QED BY <1>1, <1>2, <1>3 DEF NewBinding, Bindings

\* The synchronisation takes a declared program from its own declaration only,
\* and then the binding has it and asks for a review.
LEMMA ResolvedShellSound ==
    ASSUME DefaultShell.program \notin DeclaredPrograms,
           NEW p, NEW d \in Declarations, NEW site, NEW conf,
           p = Nothing \/ (DefinitionSound(p, conf) /\ ShellSound(p))
    PROVE  ShellSound(Resolved(p, d, site))
<1> DEFINE q == Resolved(p, d, site)
           baseline == BaselineShell(d)
<1>1. /\ q.shell = ResolvedShell(p, d) /\ q.binding = NewBinding(p, d)
      /\ q.binding.shell = baseline /\ q.binding.shellReview = (DeclaredShell[d] # NoShell)
  BY DEF Resolved, NewBinding
<1>2. Bound(q)
  BY <1>1, NewBindingIsBinding, TrustAssumption DEF TrustAssumption, Bound
<1>3. ASSUME q.shell.program \in DeclaredPrograms, q.shell.program = baseline.program
      PROVE  q.binding.shellReview /\ q.shell.program = q.binding.shell.program
  BY <1>1, <1>3, BaselineDeclared
<1>4. ASSUME q.shell.program \in DeclaredPrograms PROVE q.shell.program = baseline.program
  <2>1. CASE p = Nothing
    BY <1>1, <2>1 DEF ResolvedShell
  <2>2. CASE p # Nothing /\ Bound(p)
    <3>1. q.shell.program = Override(p.shell.program, p.binding.shell.program, baseline.program)
      BY <1>1, <2>2 DEF ResolvedShell
    <3>2. p.shell.program \in DeclaredPrograms => p.shell.program = p.binding.shell.program
      BY <2>2 DEF ShellSound
    <3> QED BY <1>4, <3>1, <3>2 DEF Override
  <2>3. CASE p # Nothing /\ ~Bound(p)
    <3>1. q.shell = IF DeclaredShell[d] = NoShell THEN p.shell ELSE baseline
      BY <1>1, <2>3 DEF ResolvedShell
    <3>2. p.shell.program \notin DeclaredPrograms
      BY <2>3 DEF ShellSound
    <3> QED BY <1>4, <3>1, <3>2
  <2> QED BY <2>1, <2>2, <2>3
<1>5. ShellSound(q)
  BY <1>2, <1>3, <1>4 DEF ShellSound
<1> QED BY <1>5

LEMMA ShellInvInit ==
    ASSUME DefaultShell.program \notin DeclaredPrograms, TrustInit PROVE ShellInv
<1>1. Project = Nothing \/ \E site \in Sites : Project = NewProject(site)
  BY InitialProject
<1>2. ASSUME NEW site PROVE ShellSound(NewProject(site))
  BY DEF NewProject, ShellSound
<1>3. plan = Nothing
  BY DEF TrustInit
<1> QED BY <1>1, <1>2, <1>3 DEF ShellInv, Connected

LEMMA ShellInvStep ==
    ASSUME DefaultShell.program \notin DeclaredPrograms,
           DefinitionInv, SyncInv, ShellInv, [TrustNext]_trustVars
    PROVE  ShellInv'
<1>1. ASSUME UNCHANGED ws, plan' = plan \/ plan' = Nothing PROVE ShellInv'
  BY <1>1 DEF ShellInv, Connected, Project
<1>2. ASSUME UNCHANGED plan, Project' = Nothing \/ ShellSound(Project') PROVE ShellInv'
  BY <1>2 DEF ShellInv, Connected, Project
<1>3. ASSUME NEW u \in Users, UserStep(u) PROVE ShellInv'
  <2>1. CASE Look(u) \/ Resolve(u)
    BY <1>1, <2>1 DEF Look, Resolve
  <2>2. CASE RemoveDefinition(u)
    BY <1>2, <2>2 DEF RemoveDefinition, EditKeepingTasks, Edit, Saved, readerVars, Project
  <2>3. ASSUME NEW site, Create(u, site) PROVE ShellInv'
    <3>1. UNCHANGED plan /\ Project' = NewProject(site)
      BY <2>3 DEF Create, EditKeepingTasks, Edit, Saved, readerVars, Project
    <3>2. ShellSound(NewProject(site))
      BY DEF NewProject, ShellSound
    <3> QED BY <1>2, <3>1, <3>2
  <2>4. ASSUME NEW site, BindRepository(u, site) \/ RebindRoot(u, site) PROVE ShellInv'
    <3>1. UNCHANGED plan
      BY <2>4 DEF BindRepository, RebindRoot, EditKeepingTasks, Edit, readerVars
    <3> QED BY <1>2, <2>4, <3>1, EditKeepsShell
  <2>5. CASE EditOther(u) \/ ApproveInitialization(u)
    <3>1. UNCHANGED plan
      BY <2>5 DEF EditOther, ApproveInitialization, EditKeepingTasks, Edit, readerVars
    <3> QED BY <1>2, <2>5, <3>1, EditKeepsShell
  <2>6. ASSUME NEW t, NEW v,
               SaveTerminal(u, t, v) \/ SaveTask(u, t, v) \/ RemoveTask(u, t) \/ ApproveTask(u, t)
        PROVE  ShellInv'
    <3>1. UNCHANGED plan
      BY <2>6 DEF SaveTerminal, SaveTask, RemoveTask, ApproveTask, EditKeepingTasks, Edit, readerVars
    <3> QED BY <1>2, <2>6, <3>1, EditKeepsShell
  <2>7. ASSUME NEW shell, UpdateShell(u, shell) PROVE ShellInv'
    <3>1. UNCHANGED plan
      BY <2>7 DEF UpdateShell, EditKeepingTasks, Edit, readerVars
    <3> QED BY <1>2, <2>7, <3>1, UpdateShellKeepsShell
  <2>8. ASSUME NEW site, Apply(u, site) PROVE ShellInv'
    <3>1. PICK s \in sync[u] :
             /\ s.revision = ws.revision
             /\ \E place : ws'.project = Resolved(Project, s.digest, place)
      BY <2>8, ApplyDone
    <3>2. s.digest \in Declarations
      BY <3>1 DEF SyncInv
    <3>3. Project = Nothing \/ (DefinitionSound(Project, confirmed) /\ ShellSound(Project))
      BY DEF DefinitionInv, ShellInv, Connected
    <3>4. ShellSound(Project')
      BY <3>1, <3>2, <3>3, ResolvedShellSound DEF Project
    <3>5. UNCHANGED plan
      BY <2>8 DEF Apply
    <3> QED BY <1>2, <3>4, <3>5
  <2>9. ASSUME NEW t, NEW v, RemoveTask(u, t) \/ ApproveTask(u, t) PROVE ShellInv'
    BY <2>6, <2>9
  <2> QED BY <1>3, <2>1, <2>2, <2>3, <2>4, <2>5, <2>6, <2>7, <2>8, <2>9 DEF UserStep
<1>4. ASSUME NEW t, PlanTerminal(t) PROVE ShellInv'
  <2>1. UNCHANGED ws /\ Connected /\ plan' = [kind |-> "terminal", id |-> t, project |-> Project]
    BY <1>4 DEF PlanTerminal
  <2>2. plan'.project = Project
    BY <2>1
  <2> QED BY <2>1, <2>2 DEF ShellInv, Connected, Project
<1>5. ASSUME NEW t, PlanTask(t) PROVE ShellInv'
  <2>1. UNCHANGED ws /\ plan' = [kind |-> "task", id |-> t]
    BY <1>5 DEF PlanTask
  <2>2. plan'.kind = "task"
    BY <2>1
  <2> QED BY <2>1, <2>2 DEF ShellInv, Connected, Project
<1>6. ASSUME NEW v, EditDeclaration(v) \/ EditStartup(v) PROVE ShellInv'
  BY <1>1, <1>6 DEF EditDeclaration, EditStartup, readerVars
<1>7. CASE LaunchTerminal \/ LaunchTask \/ Refuse \/ UNCHANGED trustVars
  BY <1>1, <1>7 DEF LaunchTerminal, LaunchTask, Refuse, trustVars
<1> QED BY <1>3, <1>4, <1>5, <1>6, <1>7 DEF TrustNext

(***************************************************************************)
(* Nothing is executed that no user was shown and approved.  A program is  *)
(* known to be a declared one by its name, so the default shell, which     *)
(* every new project has, must not have the name of one: what such a       *)
(* project executes, the user chose.                                       *)
(***************************************************************************)
THEOREM OnlyConfirmedAlwaysLaunched ==
    ASSUME DefaultShell.program \notin DeclaredPrograms
    PROVE  TrustSpec => OnlyConfirmedLaunches
<1> DEFINE Inv == DefinitionInv /\ SyncInv /\ ShellInv
           Confirmed == /\ LaunchTerminal => TerminalConfirmed(plan.project, plan.id)
                        /\ LaunchTask => TaskDigest(Project, plan.id, startup) \in confirmed
<1>1. TrustInit => Inv
  BY DefinitionInit, SyncInit, ShellInvInit
<1>2. Inv /\ [TrustNext]_trustVars => Inv'
  BY DefinitionStep, SyncStep, ShellInvStep
<1>3. Inv => [Confirmed]_trustVars
  <2> SUFFICES ASSUME Inv PROVE Confirmed
    OBVIOUS
  <2>1. ASSUME LaunchTerminal PROVE TerminalConfirmed(plan.project, plan.id)
    <3>1. ShellSound(plan.project)
      BY <2>1 DEF LaunchTerminal, ShellInv
    <3>2. plan.project.shell.program \in DeclaredPrograms => ShellReviewed(plan.project)
      BY <3>1 DEF ShellSound, ShellReviewed
    <3> QED BY <2>1, <3>2, LaunchReviewed DEF TerminalConfirmed
  <2> QED BY <2>1, TaskConfirmed
<1>4. [][Confirmed]_trustVars => OnlyConfirmedLaunches
  BY DEF OnlyConfirmedLaunches
<1> HIDE DEF Inv, Confirmed
<1> QED BY <1>1, <1>2, <1>3, <1>4, PTL DEF TrustSpec
=============================================================================
