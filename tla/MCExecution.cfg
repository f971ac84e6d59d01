\* One work item, dispatched automatically and by the operator at once.
CONSTANTS
    w1 = w1  w2 = w2
    k1 = k1  k2 = k2
    s1 = s1
    Workers = {w1}
    Works = {k1}
    Workspaces = {s1}
    WorkspaceOf <- SameWorkspace
    LeaseModeOf <- AllWrite
    DispatchModeOf <- AllHerdr
    NoWorker = NoWorker
    NoWork = NoWork
    NoWorkspace = NoWorkspace
    Pools <- EmptyOrFullPool
    ManualWorkers = {}
    MaxAttempts = 2
    AutomaticDispatch = TRUE
    MaxRecoveries = 1
    Operators = {"operator"}
SPECIFICATION ExecSpec
INVARIANTS
    ExecTypeOK
    AttemptsCoverPrompts
    CancelledNeverPrompted
    WaitingWasPrompted
PROPERTIES
    NoAutomaticResend
    ParkedWorkWaitsForOperator
    ImplementsWorkQueue
