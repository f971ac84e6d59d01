\* One managed tunnel, the loop and one operator's request, and two processes.
CONSTANTS
    TunnelIds = {u1}
    Managed = {u1}
    TunnelCalls = {tc1}
    MaxTunnelPid = 2
    NoPid = NoPid
SPECIFICATION FairTunnelSpec
INVARIANTS
    TunnelTypeOK
PROPERTIES
    TunnelComesBack
CHECK_DEADLOCK FALSE
