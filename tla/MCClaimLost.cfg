\* A claim by a transport of the same logical session.
CONSTANTS
    Gateways = {g1, g2}
    Logicals = {l1}
    Sessions = {m1}
    Handoffs = {h1}
    Requests = {r1}
    Upstreams = {u1, u2, u3}
    Base = Base
    MaxArrivals = 4
    None = None
SPECIFICATION Spec
PROPERTIES
    ClaimPinsTarget
