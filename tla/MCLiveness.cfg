SPECIFICATION PartSpec
CONSTANTS
    j1 = j1
    o1 = o1
    r1 = r1
    build = build
    Jobs = {j1}
    JobOperation <- MCJobOperation
    JobRun <- MCJobRun
    JobTask <- MCJobTask
    ParallelJobs = {}
    ShellTasks = {}
    QueueLimit = 1
    DeferredLimit = 1
    AskedRuns = {}
    Forces = {FALSE}
    LaunchMayDie = FALSE
    NoJob = NoJob
    NoSlot = NoSlot
    Sources = {}
    RunIds = {r1}
    Holders = {r1}
    RunOperations = {o1}
    Operations = {o1}
    BlockIds = {}
    Tasks = {build}
    SourceOf <- MCSourceOf
    Overlaps = {}
    NoSource = NoSource
    HistoryLimit = 1
    NoRun = NoRun
    NoTicket = NoTicket
    NoTask = NoTask
    NoOperation = NoOperation
    NoLease = NoLease
    Hosts = {h1, h2, h3}
    Legacy = {}
    Launchers = {p1, p2}
    Root = root
    Foreign = foreign
    Nobody = nobody
    MaxPid = 3
    MaxForks = 3
    LateDetach = FALSE
    Host = host
    InitProcess = init
PROPERTIES
    HostComesUp
    ForcedCloseEnds
    JobsAnswered
    RunsFinalized
    CloseReachesProcess
    ShutdownCompletes
CHECK_DEADLOCK FALSE
