\* w1 can be bound by hand to either workspace and keep k1, the head of the
\* queue, from starting; then w2 has to start k2.
CONSTANTS
    w1 = w1  w2 = w2
    k1 = k1  k2 = k2
    s1 = s1  s2 = s2
    Workers = {w1, w2}
    Works = {k1, k2}
    Workspaces = {s1, s2}
    WorkspaceOf <- TwoWorkspaces
    LeaseModeOf <- AllWrite
    DispatchModeOf <- AllManual
    NoWorker = NoWorker
    NoWork = NoWork
    NoWorkspace = NoWorkspace
    Pools <- FullPool
    ManualWorkers = {w1}
    MaxAttempts = 0
    Rank <- QueueOrder
    Ordinal <- WorkerOrder
    MaxQueue = 2
    MaxRestarts = 1
SPECIFICATION FairSchedSpec
INVARIANT
    SchedTypeOK
PROPERTIES
    ImplementsWorkQueue
    HeadOfQueueDoesNotBlock
