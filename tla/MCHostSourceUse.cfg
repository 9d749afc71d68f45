SPECIFICATION MCSpec
CONSTANTS
    worktree = worktree
    build = build
    Sources = {worktree}
    RunIds = {r1}
    Plans = {pull, fetch}
    Mutating = {pull}
    Holders = {r1, pull, fetch}
    RunOperations = {o1}
    Operations = {o1, pull, fetch}
    BlockIds = {pull, fetch}
    Tasks = {build}
    SourceOf <- MCSourceOf
    RepoOf <- MCRepoOf
    Overlaps = {}
    NoSource = NoSource
    HistoryLimit = 1
    GitHistoryLimit = 1
    MaxActive = 2
    GitExecutors = 2
    NoRun = NoRun
    NoTicket = NoTicket
    NoTask = NoTask
    NoOp = NoOp
    NoOperation = NoOperation
    NoLease = NoLease
    MaxGeneration = 1
    MaxRoot = 1
INVARIANTS
    GitSafety
    BindingCurrent
PROPERTIES
    ProcessesObeyUse
