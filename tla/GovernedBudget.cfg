SPECIFICATION Spec
CONSTANTS
    a1 = a1
    a2 = a2
    r1 = r1
    s1 = s1
    Action = {a1, a2}
    Worker = {w1, w2}
    Principal = {}
    Run = {r1}
    Switch = {}
    RunOf <- SharedRunOf
    SwitchesOf <- SharedSwitchesOf
    Admissible = {a1, a2}
    WriteRisk = {a1}
    NeedsApproval = {}
    AdminActions = {a1, a2}
    Reviewable = {}
    RequiredReviews <- SharedReviews
    MaxPolicy = 1
    DeniedBy <- NoDenials
    Costs = {1, 2}
    Budget = 2
    None = None
SYMMETRY InterchangeableWorkers
CHECK_DEADLOCK FALSE
PROPERTY ImplementsLedger
