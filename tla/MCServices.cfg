\* Two projects and their servers; two clients and one approval; two questions to two
\* agents; two desktops; one machine beside this one, Desktop Commander and an integration
\* that runs here; two child processes' users; one capsule, two agents, two handoffs.
CONSTANTS
    PoolSessions = {1, 2}
    Ports = {1, 2}
    Transports = {t1}
    MaxPid = 2
    MaxStops = 1
    IdleStop = TRUE
    Nobody = Nobody
    Clients = {1, 2}
    Scopes = {tools, offline}
    Offline = offline
    Codes = {code1}
    RefreshTokens = {1, 2}
    TokenRequests = {1, 2}
    Requests = {r1, r2}
    GivenIds = {r1}
    DeepRequests = {r2}
    claude = claude
    codex = codex
    left = left
    right = right
    Runtimes = {claude, codex}
    Preference <- Order
    Panes = {left, right}
    RuntimeOf <- TwoPanes
    MaxPrompts = 3
    DesktopSessions = {d1, d2}
    Adopting = {d1}
    MaxSlot = 3
    Machines = {local, remote}
    Local = local
    BoundSessions = {s1}
    Classes = {read, write}
    SafeClasses = {read}
    Ceilings = {{read}}
    Edits = {1}
    ToolCalls = {call1}
    Integrations = {commander, browser}
    OnMachine = {commander}
    ToolPermissions = TRUE
    CommanderSessions = {x1, x2}
    MaxRequest = 5
    MaxJob = 2
    Capsules = {c1}
    Agents = {a1, a2}
    Creators = {a1}
    MaxHandoffs = 2
    MaxUpsets = 1
    None = None
VIEW ServicesView
SPECIFICATION ServicesSpec
INVARIANTS
    ServicesTypeOK
    ServersAccountedFor
    StrayCallsFollowAMove
    OneLinePerApproval
    TokensStayApproved
    AnswersTheRequest
    DesktopsNotShared
    OnlyApprovedMachines
    CallsRunWhereAllowed
    ProcessesStayWithTheirSession
    PendingIsLive
PROPERTIES
    ImplementsOwnership
CHECK_DEADLOCK FALSE
