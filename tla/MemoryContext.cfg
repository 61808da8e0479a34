SPECIFICATION Spec
CONSTANTS
    m1 = m1
    m2 = m2
    m3 = m3
    m4 = m4
    r1 = r1
    Memory = {m1, m2, m3, m4}
    Observed <- Observations
    Legacy = {m1, m3}
    Run = {r1}
    TenantOf <- OneTenant
    Request <- Requests
    Key = {key1}
    ApproverRoles <- Roles
    Caller = {k1, k2}
    NoSnapshot = NoSnapshot
    MaxFactAge = 1
    MaxMemoryAge = 2
    MinConfidence = 3
    MaxTime = 1
    Derivation <- Chain
    Indexed = {m2}
INVARIANT ForgottenStaysOut
INVARIANT DeletionIsTotal
INVARIANT ContextIsVetted
SYMMETRY Callers
