SPECIFICATION MCSpec
CONSTANTS
    worktree = worktree
    build = build
    lint = lint
    notes = notes
    Sources = {worktree}
    RunIds = {r1, r2, r3}
    Holders = {r1, r2, r3, git}
    RunOperations = {o1, o2, o3}
    Operations = {o1, o2, o3, g1}
    BlockIds = {}
    Tasks = {build, lint, notes}
    SourceOf <- MCSourceOf
    Overlaps <- MCOverlaps
    NoSource = NoSource
    HistoryLimit = 2
    NoRun = NoRun
    NoTicket = NoTicket
    NoTask = NoTask
    NoOperation = NoOperation
    NoLease = NoLease
    MaxGeneration = 1
SYMMETRY Symmetry
INVARIANTS
    DurableCover
    RegistrySafety
PROPERTIES
    RegistryHistory
