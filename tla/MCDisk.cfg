SPECIFICATION DiskSpec
CONSTANTS
  Processes = {p1, p2}
  plain = plain
  native = native
  portable = portable
  Edits = {plain, native, portable}
  Schema <- MCSchema
  NoProcess = NoProcess
  MaxRevision = 4
  Users = {u1}
  bash = bash
  csh = csh
  declared = declared
  noArguments = noArguments
  build = build
  clean = clean
  steps = steps
  home = home
  subdir = subdir
  dTask = dTask
  dShell = dShell
  dOther = dOther
  dEmpty = dEmpty
  Programs = {bash, csh, declared}
  Native = {bash, declared}
  Arguments = {noArguments}
  DefaultShell <- MCDefaultShell
  TaskKeys = {"compile"}
  OwnTasks = {"own"}
  TaskValues = {build, clean, steps}
  Direct = {build, clean}
  Directories = {home, subdir}
  Declarations = {dTask, dShell, dOther, dEmpty}
  DeclaredShell <- MCDeclaredShell
  DeclaredTasks <- MCDeclaredTasks
  DeclaredDirectory <- MCDeclaredDirectory
  DefaultDirectory = home
  Sites = {"here"}
  StartupFiles = {1, 2}
  NoShell = NoShell
  NoDirectory = NoDirectory
  NoFile = NoFile
  Nothing = Nothing
  RevisionBound = 5
  Runs = {r1, r2, r3}
  HistoryLimit = 2
  PinLimit = 1
  MaxSwaps = 1
  None = None
  bundle1 = bundle1
  twin1 = twin1
  bundle2 = bundle2
  forged = forged
  Generations <- MCGenerations
  Verified <- MCVerified
  Version <- MCVersion
  Binaries = {1, 2}
  MaxGenerations = 2
  NoGeneration = NoGeneration
INVARIANTS
    BackupsRecoverable
    RetentionSafety
    InstallSafety
PROPERTIES
    StoreImplementsRegister
    OnlyConfirmedLaunches
    SyncKeepsUserTasks
CHECK_DEADLOCK FALSE
