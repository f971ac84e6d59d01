\* Two requests at a time on two transports.
CONSTANTS
    Gateways = {g1, g2}
    Logicals = {l1, l2}
    Sessions = {m1}
    Handoffs = {h1, h2}
    Requests = {r1, r2}
    Upstreams = {u1, u2, u3}
    Base = Base
    MaxArrivals = 4
    None = None
SPECIFICATION Spec
SYMMETRY Symmetric
INVARIANTS
    TypeOK
    ToolCallsRunInTheirSession
    UpstreamsNotShared
    OneClaimant
    ClaimRetiresNothingInUse
PROPERTIES
    ImplementsClaimToken
