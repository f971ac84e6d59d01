\* Two workers compete for one workspace with two write work items.
CONSTANTS
    w1 = w1  w2 = w2
    k1 = k1  k2 = k2
    s1 = s1  s2 = s2
    Workers = {w1, w2}
    Works = {k1, k2}
    Workspaces = {s1}
    WorkspaceOf <- SameWorkspace
    LeaseModeOf <- BothWrite
    DispatchModeOf <- OneHerdr
    NoWorker = NoWorker
    NoWork = NoWork
    NoWorkspace = NoWorkspace
    Pools <- FullPool
    ManualWorkers = {w1, w2}
    MaxAttempts = 1
VIEW QueueView
SYMMETRY WorkerSymmetry
SPECIFICATION Spec
INVARIANTS
    LeaseHasLiveWriter
    OneFencedWriterPerWorkspace
    CancelledMeansNeverDispatched
    QueueInv
PROPERTIES
    LeaseOutlivesRecovery
    ImplementsWriteLease
