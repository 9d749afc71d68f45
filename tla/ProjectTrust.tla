---------------------------- MODULE ProjectTrust ----------------------------
(***************************************************************************)
(* The definition of one project and what may be executed from it:         *)
(* edits (project.rs, task.rs), the declaration idk.toml of the project's  *)
(* own sources and its synchronisation (portable.rs), reviews, approvals   *)
(* and the plans of terminals and tasks that the host executes.            *)
(*                                                                         *)
(* Users edit the definition they last looked at: an edit takes effect     *)
(* only on the revision it expects, which WorkspaceStore shows atomic.     *)
(* Startup files and idk.toml are changed by anybody at any time.  A       *)
(* digest is the record of what is hashed; two of them never collide.      *)
(***************************************************************************)
EXTENDS Naturals, FiniteSets

CONSTANTS
  Users,
  Programs, Native,       \* shells; those that start natively, without the
                          \* legacy csh initialisation
  Arguments,              \* of a shell
  DefaultShell,           \* what resolve takes when nothing is declared
  TaskKeys,               \* the keys a declaration may give its tasks
  OwnTasks,               \* tasks the user defines
  TaskValues, Direct,     \* what a task executes; the ones without a shell
  Directories,            \* where a terminal starts
  Declarations,           \* the contents idk.toml may have
  DeclaredShell,          \* the shell a declaration names, or NoShell
  DeclaredTasks,          \* its tasks: a function on a set of keys
  DeclaredDirectory,      \* the directory of its terminal, or NoDirectory
  DefaultDirectory,
  Sites,                  \* root and repository of the project
  StartupFiles,           \* versions of the files a legacy shell reads
  NoShell, NoDirectory, NoFile, Nothing,
  RevisionBound             \* bound of the exploration

TaskIds == TaskKeys \union OwnTasks
TerminalIds == {"dev", "own"}    \* the declared terminal and one of the user's

Shells == [program : Programs, args : Arguments]
TaskTables == UNION {[keys -> Direct] : keys \in SUBSET TaskKeys}

\* What a definition records of the declaration it was last synchronised with.
Bindings ==
  [digest : Declarations, taskKeys : SUBSET TaskKeys, shellReview : BOOLEAN,
   terminalReviews : SUBSET {"dev"}, shell : Shells, directory : Directories,
   tasks : TaskTables]

ASSUME TrustAssumption ==
  /\ TaskKeys \intersect OwnTasks = {}
  /\ DefaultShell \in [program : Native, args : Arguments]
  /\ Native \subseteq Programs /\ Direct \subseteq TaskValues
  /\ \A d \in Declarations :
       /\ DeclaredShell[d] \in Shells \union {NoShell}
       /\ DeclaredTasks[d] \in TaskTables
       /\ DeclaredDirectory[d] \in Directories \union {NoDirectory}
  /\ DefaultDirectory \in Directories
  /\ Nothing \notin Bindings

DeclaredShells == {DeclaredShell[d] : d \in Declarations} \ {NoShell}
DeclaredPrograms == {s.program : s \in DeclaredShells}

VARIABLES
  ws,          \* the saved definition: [revision, project], project or Nothing
  declaration, \* the content of idk.toml, or NoFile
  startup,     \* the version of the startup files
  review,      \* what each user last looked at
  sync,        \* what each user resolved and is about to apply
  plan,        \* the plan the host is making
  everSaved,   \* history: tasks that were once defined; drafts of them last
  confirmed    \* history: what a user approved after it was shown

trustVars == <<ws, declaration, startup, review, sync, plan, everSaved, confirmed>>
worldVars == <<declaration, startup>>
readerVars == <<review, sync, plan>>
historyVars == <<everSaved, confirmed>>

Project == ws.project
Connected == Project # Nothing
Bound(p) == p.binding # Nothing

-----------------------------------------------------------------------------
(* Digests and trust: common_scope, terminal_scope, their managed forms    *)
(* and digest of task.rs, on the given project and startup files.          *)

IsNative(p) == p.shell.program \in Native
ShellReviewed(p) == Bound(p) /\ p.binding.shellReview
DirectoryReviewed(p, t) == Bound(p) /\ t \in p.binding.terminalReviews

CommonDigest(p, files) ==
  IF ~IsNative(p) THEN [scope |-> "common", shell |-> p.shell, files |-> files]
  ELSE [scope |-> IF ShellReviewed(p) THEN "project native" ELSE "native", shell |-> p.shell]

CommonTrusted(p, files) ==
  \/ IsNative(p) /\ ~ShellReviewed(p)
  \/ p.shellTrust = {CommonDigest(p, files)}

TerminalDigest(p, t, files) ==
  [scope |-> "terminal", common |-> CommonDigest(p, files), terminal |-> t,
   directory |-> p.terminals[t].directory]

TerminalTrusted(p, t, files) ==
  /\ IsNative(p) => CommonTrusted(p, files)
  /\ \/ IsNative(p) /\ ~DirectoryReviewed(p, t)
     \/ p.terminals[t].trust = {TerminalDigest(p, t, files)}

\* A task without a shell trusts no startup file; another one needs a legacy shell.
TaskRunnable(p, v) == v \in Direct \/ ~IsNative(p)
TaskInitialised(p, v, files) == v \in Direct \/ CommonTrusted(p, files)

TaskDigest(p, t, files) ==
  LET v == p.tasks[t].value
  IN  [scope |-> "task", task |-> t, value |-> v, site |-> p.site,
       common |-> IF v \in Direct THEN Nothing ELSE CommonDigest(p, files)]

\* ensure_workspace_current: idk.toml is still what was synchronised.
DeclarationCurrent(p) == Bound(p) => declaration = p.binding.digest

-----------------------------------------------------------------------------
(* Edits of the definition                                                 *)

Untrusted(terminals) ==
  [t \in DOMAIN terminals |-> [terminals[t] EXCEPT !.trust = {}]]

Saved(project) ==
  /\ ws.revision < RevisionBound
  /\ ws' = [revision |-> ws.revision + 1, project |-> project]

\* ProjectService::change by a user who last saw this revision.
Edit(u, project) ==
  /\ review[u].revision = ws.revision
  /\ Saved(project)
  /\ UNCHANGED <<worldVars, readerVars, confirmed>>

EditKeepingTasks(u, project) == Edit(u, project) /\ UNCHANGED everSaved

NewProject(site) ==
  [shell |-> DefaultShell, shellTrust |-> {}, site |-> site,
   terminals |-> [t \in {"own"} |-> [directory |-> DefaultDirectory, trust |-> {}]],
   tasks |-> << >>, binding |-> Nothing]

Create(u, site) == ~Connected /\ EditKeepingTasks(u, NewProject(site))

RemoveDefinition(u) == Connected /\ EditKeepingTasks(u, Nothing)

\* rename, select, reorder_terminals, set_default_terminal, the editor: no
\* approval depends on what they change.
EditOther(u) == Connected /\ EditKeepingTasks(u, Project)

\* update_shell: another shell loses every approval of the project.
WithShell(p, shell) ==
  IF shell = p.shell THEN p
  ELSE [p EXCEPT !.shell = shell, !.shellTrust = {}, !.terminals = Untrusted(@)]

\* Users name shells of their own, or keep the one they find.
UpdateShell(u, shell) ==
  /\ Connected
  /\ shell.program \in (Programs \ DeclaredPrograms) \union {Project.shell.program}
  /\ EditKeepingTasks(u, WithShell(Project, shell))

\* save_terminal: the approval stays with the directory it was given for.
SaveTerminal(u, t, directory) ==
  /\ Connected /\ t \in DOMAIN Project.terminals
  /\ EditKeepingTasks(u,
       [Project EXCEPT !.terminals[t] =
          [directory |-> directory,
           trust |-> IF directory = @.directory THEN @.trust ELSE {}]])

\* TaskService::save: any task ID, also one of a draft whose task is gone.
SaveTask(u, t, v) ==
  /\ Connected /\ TaskRunnable(Project, v)
  /\ t \in OwnTasks \union everSaved
  /\ Edit(u, [Project EXCEPT !.tasks =
       [s \in DOMAIN @ \union {t} |-> IF s = t THEN [value |-> v, approved |-> {}] ELSE @[s]]])
  /\ everSaved' = everSaved \union {t}

RemoveTask(u, t) ==
  /\ Connected /\ t \in DOMAIN Project.tasks
  /\ EditKeepingTasks(u,
       [Project EXCEPT !.tasks = [s \in DOMAIN @ \ {t} |-> @[s]]])

BindRepository(u, site) ==
  /\ Connected
  /\ EditKeepingTasks(u, [Project EXCEPT !.site = site])

\* rebind_root: the new place has the same declaration and no approvals.
RebindRoot(u, site) ==
  /\ Connected /\ DeclarationCurrent(Project)
  /\ EditKeepingTasks(u,
       [Project EXCEPT !.site = site, !.shellTrust = {}, !.terminals = Untrusted(@),
                       !.tasks = [t \in DOMAIN @ |-> [@[t] EXCEPT !.approved = {}]]])

-----------------------------------------------------------------------------
(* Reviews and approvals                                                   *)

NoReview == [revision |-> 0, common |-> {}, terminals |-> << >>, tasks |-> << >>]

\* What is shown of the project: nothing when idk.toml changed since its sync.
Shown(p, files) ==
  IF ~DeclarationCurrent(p) THEN [NoReview EXCEPT !.revision = ws.revision]
  ELSE [revision  |-> ws.revision,
        common    |-> {CommonDigest(p, files)},
        terminals |-> [t \in DOMAIN p.terminals |-> TerminalDigest(p, t, files)],
        tasks     |-> [t \in {s \in DOMAIN p.tasks : TaskRunnable(p, p.tasks[s].value)} |->
                         TaskDigest(p, t, files)]]

Look(u) ==
  /\ review' = [review EXCEPT ![u] =
       IF Connected THEN Shown(Project, startup)
       ELSE [NoReview EXCEPT !.revision = ws.revision]]
  /\ UNCHANGED <<ws, worldVars, sync, plan, historyVars>>

\* Mutant: what is there now is approved, not what was shown.
SameScopesMutant(u) == review[u].common # {}

\* approve_initialization reviews again and compares every scope.
SameScopes(u) ==
  /\ review[u].common = {CommonDigest(Project, startup)}
  /\ review[u].terminals =
       [t \in DOMAIN Project.terminals |-> TerminalDigest(Project, t, startup)]

ApproveInitialization(u) ==
  /\ review[u].revision = ws.revision
  /\ Connected /\ DeclarationCurrent(Project)
  /\ SameScopes(u)
  /\ Saved([Project EXCEPT
       !.shellTrust = {CommonDigest(Project, startup)},
       !.terminals = [t \in DOMAIN @ |->
          [@[t] EXCEPT !.trust = {TerminalDigest(Project, t, startup)}]]])
  /\ confirmed' = confirmed \union review[u].common
       \union {review[u].terminals[t] : t \in DOMAIN review[u].terminals}
  /\ UNCHANGED <<worldVars, readerVars, everSaved>>

\* TaskService::approve
ApproveTask(u, t) ==
  /\ review[u].revision = ws.revision
  /\ Connected /\ DeclarationCurrent(Project)
  /\ t \in DOMAIN review[u].tasks
  /\ review[u].tasks[t] = TaskDigest(Project, t, startup)
  /\ TaskInitialised(Project, Project.tasks[t].value, startup)
  /\ Saved([Project EXCEPT !.tasks[t].approved = {review[u].tasks[t]}])
  /\ confirmed' = confirmed \union {review[u].tasks[t]}
  /\ UNCHANGED <<worldVars, readerVars, everSaved>>

-----------------------------------------------------------------------------
(* The declaration: resolve_for, apply                                     *)

BaselineShell(d) == IF DeclaredShell[d] = NoShell THEN DefaultShell ELSE DeclaredShell[d]
BaselineDirectory(d) ==
  IF DeclaredDirectory[d] = NoDirectory THEN DefaultDirectory ELSE DeclaredDirectory[d]

\* local_overrides: a field the user changed since the last sync stays changed.
Override(local, old, next) == IF local # old THEN local ELSE next

ResolvedShell(p, d) ==
  IF p = Nothing THEN BaselineShell(d)
  ELSE IF Bound(p) THEN
    [program |-> Override(p.shell.program, p.binding.shell.program, BaselineShell(d).program),
     args    |-> Override(p.shell.args, p.binding.shell.args, BaselineShell(d).args)]
  ELSE IF DeclaredShell[d] = NoShell THEN p.shell ELSE BaselineShell(d)

ResolvedDirectory(p, d) ==
  IF p # Nothing /\ Bound(p) /\ "dev" \in DOMAIN p.terminals
  THEN Override(p.terminals["dev"].directory, p.binding.directory, BaselineDirectory(d))
  ELSE BaselineDirectory(d)

ManagedTasks(p) == IF p # Nothing /\ Bound(p) THEN p.binding.taskKeys ELSE {}

\* Mutant: the declaration wins over an edit made here.
ConflictMutant(p, d) == FALSE

\* A task the declaration gave is edited here and would not survive.
Conflict(p, d) ==
  /\ p # Nothing /\ Bound(p)
  /\ \E k \in DOMAIN p.binding.tasks \intersect DOMAIN p.tasks :
       /\ p.tasks[k].value # p.binding.tasks[k]
       /\ ~(k \in DOMAIN DeclaredTasks[d] /\ p.tasks[k].value = DeclaredTasks[d][k])

\* Approvals stay where nothing they were given for changed.
KeptTrust(same, trust) == IF same THEN trust ELSE {}

ResolvedTasks(p, d) ==
  LET old == IF p = Nothing THEN << >> ELSE p.tasks
      ids == DOMAIN DeclaredTasks[d] \union (DOMAIN old \ ManagedTasks(p))
      ValueOf(t) == IF t \in DOMAIN DeclaredTasks[d] THEN DeclaredTasks[d][t] ELSE old[t].value
  IN  [t \in ids |->
         [value |-> ValueOf(t),
          approved |-> IF t \in DOMAIN old
                       THEN KeptTrust(old[t].value = ValueOf(t), old[t].approved) ELSE {}]]

ResolvedTerminals(p, d) ==
  LET old == IF p = Nothing THEN << >> ELSE p.terminals
      directory == ResolvedDirectory(p, d)
  IN  [t \in {"dev"} \union DOMAIN old |->
         IF t # "dev" THEN old[t]
         ELSE [directory |-> directory,
               trust |-> IF t \in DOMAIN old
                         THEN KeptTrust(old[t].directory = directory, old[t].trust) ELSE {}]]

NewBinding(p, d) ==
  [digest |-> d,
   taskKeys |-> ManagedTasks(p) \union DOMAIN DeclaredTasks[d],
   shellReview |-> DeclaredShell[d] # NoShell,
   terminalReviews |-> IF DeclaredDirectory[d] # NoDirectory THEN {"dev"} ELSE {},
   shell |-> BaselineShell(d), directory |-> BaselineDirectory(d), tasks |-> DeclaredTasks[d]]

Resolved(p, d, site) ==
  [shell |-> ResolvedShell(p, d),
   shellTrust |-> IF p = Nothing THEN {} ELSE KeptTrust(ResolvedShell(p, d) = p.shell, p.shellTrust),
   site |-> site,
   terminals |-> ResolvedTerminals(p, d),
   tasks |-> ResolvedTasks(p, d),
   binding |-> NewBinding(p, d)]

\* resolve_for and the checks of apply, up to the save.
Resolve(u) ==
  /\ declaration # NoFile
  /\ ~Conflict(Project, declaration)
  /\ sync' = [sync EXCEPT ![u] = {[revision |-> ws.revision, digest |-> declaration]}]
  /\ UNCHANGED <<ws, worldVars, review, plan, historyVars>>

Apply(u, site) ==
  /\ \E s \in sync[u] :
       /\ s.revision = ws.revision
       /\ Saved(Resolved(Project, s.digest, IF Connected THEN Project.site ELSE site))
       /\ everSaved' = everSaved \union DOMAIN DeclaredTasks[s.digest]
  /\ sync' = [sync EXCEPT ![u] = {}]
  /\ UNCHANGED <<worldVars, review, plan, confirmed>>

EditDeclaration(d) ==
  /\ d # declaration
  /\ declaration' = d
  /\ UNCHANGED <<ws, startup, readerVars, historyVars>>

EditStartup(v) ==
  /\ v # startup
  /\ startup' = v
  /\ UNCHANGED <<ws, declaration, readerVars, historyVars>>

-----------------------------------------------------------------------------
(* Plans of the host                                                       *)

\* terminal_launch_plan loads the definition and compares the declaration ...
PlanTerminal(t) ==
  /\ plan = Nothing
  /\ Connected /\ DeclarationCurrent(Project)
  /\ t \in DOMAIN Project.terminals
  /\ plan' = [kind |-> "terminal", id |-> t, project |-> Project]
  /\ UNCHANGED <<ws, worldVars, review, sync, historyVars>>

\* ... then reads the startup files; what it admits is executed.
LaunchTerminal ==
  /\ plan # Nothing /\ plan.kind = "terminal"
  /\ LET p == plan.project
     IN  /\ CommonTrusted(p, startup)
         /\ TerminalTrusted(p, plan.id, startup)
  /\ plan' = Nothing
  /\ UNCHANGED <<ws, worldVars, review, sync, historyVars>>

\* launch_plan of a task compares the declaration with one load ...
PlanTask(t) ==
  /\ plan = Nothing
  /\ Connected /\ DeclarationCurrent(Project)
  /\ t \in DOMAIN Project.tasks
  /\ plan' = [kind |-> "task", id |-> t]
  /\ UNCHANGED <<ws, worldVars, review, sync, historyVars>>

TaskApproved(t) == Project.tasks[t].approved = {TaskDigest(Project, t, startup)}

\* ... and takes the definition from another.
LaunchTask ==
  /\ plan # Nothing /\ plan.kind = "task"
  /\ Connected /\ plan.id \in DOMAIN Project.tasks
  /\ LET v == Project.tasks[plan.id].value
     IN  TaskRunnable(Project, v) /\ TaskInitialised(Project, v, startup)
  /\ TaskApproved(plan.id)
  /\ plan' = Nothing
  /\ UNCHANGED <<ws, worldVars, review, sync, historyVars>>

Refuse ==
  /\ plan # Nothing
  /\ plan' = Nothing
  /\ UNCHANGED <<ws, worldVars, review, sync, historyVars>>

-----------------------------------------------------------------------------
TrustInit ==
  /\ \E site \in Sites : ws \in {[revision |-> 1, project |-> p] : p \in {Nothing, NewProject(site)}}
  /\ declaration \in Declarations \union {NoFile}
  /\ startup \in StartupFiles
  /\ review = [u \in Users |-> NoReview]
  /\ sync = [u \in Users |-> {}]
  /\ plan = Nothing
  /\ everSaved = {} /\ confirmed = {}

UserStep(u) ==
  \/ Look(u) \/ ApproveInitialization(u) \/ Resolve(u)
  \/ RemoveDefinition(u) \/ EditOther(u)
  \/ \E site \in Sites : Create(u, site) \/ BindRepository(u, site) \/ RebindRoot(u, site)
                         \/ Apply(u, site)
  \/ \E program \in Programs, a \in Arguments : UpdateShell(u, [program |-> program, args |-> a])
  \/ \E t \in TerminalIds, d \in Directories : SaveTerminal(u, t, d)
  \/ \E t \in TaskIds : RemoveTask(u, t) \/ ApproveTask(u, t)
  \/ \E t \in TaskIds, v \in TaskValues : SaveTask(u, t, v)

TrustNext ==
  \/ \E u \in Users : UserStep(u)
  \/ \E d \in Declarations \union {NoFile} : EditDeclaration(d)
  \/ \E v \in StartupFiles : EditStartup(v)
  \/ \E t \in TerminalIds : PlanTerminal(t)
  \/ \E t \in TaskIds : PlanTask(t)
  \/ LaunchTerminal \/ LaunchTask \/ Refuse

TrustSpec == TrustInit /\ [][TrustNext]_trustVars

-----------------------------------------------------------------------------
(***************************************************************************)
(* Nothing is executed that no user was shown and approved: a task never;  *)
(* a terminal not with a legacy shell, whose startup files are part of     *)
(* what was shown, not with a program the project's own sources declare,   *)
(* and not in a directory they declare.                                    *)
(***************************************************************************)
TerminalConfirmed(p, t) ==
  \/ TerminalDigest(p, t, startup) \in confirmed
  \/ /\ IsNative(p) /\ ~DirectoryReviewed(p, t)
     /\ p.shell.program \in DeclaredPrograms => CommonDigest(p, startup) \in confirmed

OnlyConfirmedLaunches ==
  [][/\ LaunchTerminal => TerminalConfirmed(plan.project, plan.id)
     /\ LaunchTask => TaskDigest(Project, plan.id, startup) \in confirmed]_trustVars

Applied == \E u \in Users : sync'[u] # sync[u] /\ sync'[u] = {}

Survives(t) ==
  t \in DOMAIN Project'.tasks /\ Project'.tasks[t].value = Project.tasks[t].value

\* Differs from what the last synchronisation gave it, or was not given by it.
EditedHere(p, t) ==
  t \in DOMAIN p.binding.tasks => p.tasks[t].value # p.binding.tasks[t]

(***************************************************************************)
(* A synchronisation takes nothing from the user: a task of his own, with  *)
(* its approval, and an edit of a task the last synchronisation gave.      *)
(***************************************************************************)
SyncKeepsUserTasks ==
  [][Applied /\ Connected =>
       \A t \in DOMAIN Project.tasks :
         /\ t \in OwnTasks =>
              t \in DOMAIN Project'.tasks /\ Project'.tasks[t] = Project.tasks[t]
         /\ (Bound(Project) /\ t \in DOMAIN Project.binding.tasks /\ EditedHere(Project, t)) =>
              Survives(t)]_trustVars

(***************************************************************************)
(* What resolve_for says of itself: a local edit of a declaration-owned    *)
(* command must never disappear on sync.  It does when the declaration     *)
(* dropped the task before the edit was saved: the draft brings it back    *)
(* under an ID that every later synchronisation takes for its own.         *)
(***************************************************************************)
SyncKeepsLocalEdits ==
  [][Applied /\ Connected /\ Bound(Project) =>
       \A t \in DOMAIN Project.tasks \intersect ManagedTasks(Project) :
         EditedHere(Project, t) => Survives(t)]_trustVars
=============================================================================
