\* Two workers, two write work items of one workspace, one missed heartbeat.
CONSTANTS
    w1 = w1  w2 = w2
    k1 = k1  k2 = k2
    s1 = s1
    Workers = {w1, w2}
    Works = {k1, k2}
    Workspaces = {s1}
    WorkspaceOf <- SameWorkspace
    LeaseModeOf <- AllWrite
    DispatchModeOf <- AllHerdr
    NoWorker = NoWorker
    NoWork = NoWork
    NoWorkspace = NoWorkspace
    Pools <- FullPool
    ManualWorkers = {}
    MaxAttempts = 1
    AutomaticDispatch = TRUE
    MaxRecoveries = 1
    Operators = {"operator"}
SPECIFICATION ExecSpec
INVARIANT
    NoSecondWriter
