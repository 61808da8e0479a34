SPECIFICATION Spec
CONSTANTS
    a1 = a1
    a2 = a2
    r1 = r1
    s1 = s1
    Action = {a1}
    Worker = {w1, w2}
    Principal = {p1, p2}
    Run = {r1}
    Switch = {s1}
    RunOf <- WriteRunOf
    SwitchesOf <- WriteSwitchesOf
    Admissible = {a1}
    WriteRisk = {a1}
    NeedsApproval = {a1}
    AdminActions = {}
    Reviewable = {a1}
    RequiredReviews <- WriteReviews
    MaxPolicy = 2
    DeniedBy <- WriteDenials
    Costs = {1}
    Budget = 1
    None = None
SYMMETRY Interchangeable
INVARIANT AtMostOnceEffect
INVARIANT EffectsAreGoverned
INVARIANT SucceededIsReal
INVARIANT KillSwitchStopsNewCalls
INVARIANT ShadowRunsNeverWrite
PROPERTY SettledIsFinal
