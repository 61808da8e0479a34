SPECIFICATION Spec
CONSTANTS
    ann = ann
    bob = bob
    idp = idp
    api = api
    here = here
    None = None
    Tenant = {here}
    Principal = {ann, bob}
    Stop = {tool}
    Token <- Tokens
    Trusted <- Settings
    Auth = {a1}
    Request = {k1, k2}
    Gate = {g1}
    TenantOf <- HereOnly
    StopsOf <- EveryStop
    MaxRows = 2
    MaxPlatform = 2
SYMMETRY Interchangeable
INVARIANTS
    TrailTellsThePlatform
    NoGapInHandover
    IndependentHands
