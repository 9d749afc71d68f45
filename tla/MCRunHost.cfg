SPECIFICATION PartSpec
CONSTANTS
    j1 = j1
    j2 = j2
    o1 = o1
    o2 = o2
    r1 = r1
    r2 = r2
    build = build
    Jobs = {j1, j2}
    JobOperation <- MCJobOperation
    JobRun <- MCJobRun
    JobTask <- MCJobTask
    ParallelJobs = {}
    ShellTasks = {}
    QueueLimit = 1
    DeferredLimit = 1
    AskedRuns = {}
    Forces = {FALSE}
    LaunchMayDie = FALSE
    NoJob = NoJob
    NoSlot = NoSlot
    Sources = {}
    RunIds = {r1, r2}
    Holders = {r1, r2}
    RunOperations = {o1, o2}
    Operations = {o1, o2}
    BlockIds = {}
    Tasks = {build}
    SourceOf <- MCSourceOf
    Overlaps = {}
    NoSource = NoSource
    HistoryLimit = 2
    NoRun = NoRun
    NoTicket = NoTicket
    NoTask = NoTask
    NoOperation = NoOperation
    NoLease = NoLease
INVARIANTS
    TaskOwedFinish
    TaskSignalAfterDurableCancel
    HostBookkeeping
CHECK_DEADLOCK FALSE
