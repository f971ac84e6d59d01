\* Liveness: one work item, automatic dispatch, operator, crashes; panes that
\* are lost come back.
CONSTANTS
    w1 = w1  w2 = w2
    k1 = k1  k2 = k2
    s1 = s1
    Workers = {w1}
    Works = {k1}
    Workspaces = {s1}
    WorkspaceOf <- SameWorkspace
    LeaseModeOf <- NoneWrites
    DispatchModeOf <- AllHerdr
    NoWorker = NoWorker
    NoWork = NoWork
    NoWorkspace = NoWorkspace
    Pools <- FullPool
    ManualWorkers = {}
    MaxAttempts = 1
    AutomaticDispatch = TRUE
    MaxRecoveries = 1
    Operators = {"operator"}
SPECIFICATION FairPanesSpec
PROPERTIES
    DispatchesEnd
    RecoveryEnds
    OrphanedWorkIsSettled
