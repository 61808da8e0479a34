SPECIFICATION Spec
CONSTANTS
    r1 = r1
    r2 = r2
    d1 = d1
    d2 = d2
    Run = {r1, r2}
    Dispatcher = {d1, d2}
    Serves <- SamePool
    CreatedAt <- InOrder
    PollLimit = 1
    ReconcileLimit = 2
    ReconcileEvery = 2
    MaxFaults = 2
    NoRun = NoRun
INVARIANT OneExecution
INVARIANT PublishedIsStarted
PROPERTY RequestedGetsWorkflow
