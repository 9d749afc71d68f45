------------------------------- MODULE MCDisk -------------------------------
(***************************************************************************)
(* What the program keeps on disk, one part of it beside the other: `part` *)
(* says which of them moves.                                               *)
(*   "store"     two processes, edits that need each schema, a definition  *)
(*               that starts at any schema or is missing.                  *)
(*   "trust"     a native and a legacy shell of the user's, a native shell *)
(*               that only declarations name, and startup files.           *)
(*   "sync"      declarations of a task, of another, and of nothing, and   *)
(*               tasks of the user's.                                      *)
(*   "retention" three runs, of which the history holds two and one pinned.*)
(*   "install"   two bundles of one version, one above it and one that     *)
(*               fails verification.                                       *)
(***************************************************************************)
EXTENDS WorkspaceStore, ProjectTrust, Retention, Install, TLC

CONSTANTS plain, native, portable,                           \* edits
          bash, csh, declared, noArguments,                  \* shells
          build, clean, steps, home, subdir,
          dTask, dShell, dOther, dEmpty,                     \* declarations
          bundle1, twin1, bundle2, forged                             \* bundles

MCSchema == plain :> 1 @@ native :> 2 @@ portable :> 3

MCDefaultShell == [program |-> bash, args |-> noArguments]
MCDeclaredShell ==
  [d \in {dTask, dShell, dOther, dEmpty} |->
     IF d = dShell THEN [program |-> declared, args |-> noArguments] ELSE NoShell]
MCDeclaredTasks ==
  [d \in {dTask, dShell, dOther, dEmpty} |->
     CASE d = dEmpty -> << >>
       [] d = dOther -> "compile" :> clean
       [] OTHER -> "compile" :> build]
MCDeclaredDirectory ==
  [d \in {dTask, dShell, dOther, dEmpty} |-> IF d = dShell THEN subdir ELSE NoDirectory]

MCGenerations == {bundle1, twin1, bundle2, forged}
MCVerified == {bundle1, twin1, bundle2}
MCVersion == (bundle1 :> 1) @@ (twin1 :> 1) @@ (bundle2 :> 2) @@ (forged :> 3)

VARIABLE part

installVars == vars
diskVars == <<part, storeVars, trustVars, retentionVars, installVars>>

\* A connected project without a declaration.
DiskInit ==
  /\ part \in {"store", "trust", "sync", "retention", "install"}
  /\ StoreInit /\ RetentionInit /\ Init
  /\ part # "store" => ~first.exists
  /\ TrustInit /\ Connected /\ declaration = NoFile
  /\ part # "trust" => startup = 1

\* What declarations and edits are about in the two parts on projects.
ValuesIn(values) ==
  Project' # Nothing => \A t \in DOMAIN Project'.tasks : Project'.tasks[t].value \in values
TrustScope == declaration' \in {NoFile, dShell} /\ ValuesIn({build, steps})
SyncScope ==
  /\ declaration' # dShell /\ startup' = startup /\ plan' = plan
  /\ ValuesIn({build, clean})
  /\ Project' # Nothing =>
       /\ Project'.shell = DefaultShell
       /\ \A t \in DOMAIN Project'.terminals : Project'.terminals[t].directory = home

DiskNext ==
  /\ \/ /\ part = "store" /\ StoreNext
        /\ UNCHANGED <<trustVars, retentionVars, installVars>>
     \/ /\ part = "trust" /\ TrustNext /\ TrustScope
        /\ UNCHANGED <<storeVars, retentionVars, installVars>>
     \/ /\ part = "sync" /\ TrustNext /\ SyncScope
        /\ UNCHANGED <<storeVars, retentionVars, installVars>>
     \/ /\ part = "retention" /\ RetentionNext
        /\ UNCHANGED <<storeVars, trustVars, installVars>>
     \/ /\ part = "install" /\ Next
        /\ UNCHANGED <<storeVars, trustVars, retentionVars>>
  /\ UNCHANGED part

DiskSpec == DiskInit /\ [][DiskNext]_diskVars
SyncSpec == DiskInit /\ part = "sync" /\ [][DiskNext]_diskVars
=============================================================================
