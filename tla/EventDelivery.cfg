SPECIFICATION DeliverySpec
CONSTANTS
    Fact = {f1, f2}
    Envelope = {e1, e2}
    Tenant = {t}
    TenantOf <- OneTenant
    Relay = {r1, r2}
    Consumer = {c1, c2}
    None = None
    Batch = 2
    MaxFailures = 1
SYMMETRY Symmetry
CHECK_DEADLOCK FALSE
INVARIANT ChainIsLinear
PROPERTY AtLeastOnce
