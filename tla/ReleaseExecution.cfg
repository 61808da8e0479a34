SPECIFICATION Spec
CONSTANTS
    d1 = d1
    base = base
    m = m
    q = q
    salt = salt
    Deployment = {d1, d2}
    Slot = {base}
    SlotOf <- SameSlot
    Conflicted = {}
    Allocation <- AllRules
    NoAllocation = NoAllocation
    RulesOf <- Rules
    Metric = {m}
    MinConsecutive = 1
    PoliciesOf <- Policies
    Request = {q}
    Pairs <- OnTheFirst
    Reporter = {p1, p2}
    Percentile <- Third
    Sample <- PassAndBreach
    Reported <- CanaryOfTheFirst
    MaxSamples = 2
    MaxFaults = 1
SYMMETRY Interchangeable
CONSTRAINT OneStoryAtATime
CHECK_DEADLOCK FALSE
INVARIANT OneActiveRelease
INVARIANT RecordsAgree
INVARIANT ReleasedOnSamples
INVARIANT StableServedOnce
PROPERTY RouteIsReplayable
