SPECIFICATION EvaluationSpec
CONSTANTS
    g = g
    h = h
    wg = wg
    we = we
    Candidate = {c1}
    Principal = {g, h, wg, we}
    NoOne = NoOne
    Generators = {g}
    Graders = {g, h}
    Approvers = {h}
    Executors = {h}
    WorkerGrader = wg
    WorkerExecutor = we
    Suite = {s1}
    Target = {"skill", "prompt_asset", "kill_switch"}
    PolicyDenies = {"prompt_asset"}
    Caller = {k1, k2}
    NoCaller = NoCaller
    Policy <- HalfPasses
    TrialOutcomes = {"passed", "failed", "invalid"}
    MaxAdded = 1
    MaxFailures = 1
INVARIANT QualifiedOnEvidence
PROPERTY GateIsKept
PROPERTY EvaluationEnds
