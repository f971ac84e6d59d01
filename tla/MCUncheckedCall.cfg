\* A call whose tool was not on offer when it was decided.
CONSTANTS
    Machines = {local, remote}
    Local = local
    BoundSessions = {s1}
    Classes = {read, write}
    SafeClasses = {read}
    Ceilings = {{read}}
    Edits = {1}
    ToolCalls = {call1}
    Integrations = {commander, browser}
    OnMachine = {commander}
    ToolPermissions = TRUE
SPECIFICATION MachineSpec
INVARIANT AuthorityIsIntersection
CHECK_DEADLOCK FALSE
