SPECIFICATION Spec
CONSTANTS
    g1 = g1
    r1 = r1
    r2 = r2
    t1 = t1
    t2 = t2
    a1 = a1
    Goal = {g1}
    Run = {r1, r2}
    Task = {t1, t2}
    Action = {a1}
    Criterion = {k1, k2}
    GoalOf <- TwoRuns
    RunOf <- BothTasks
    DependsOn <- InOrder
    TaskOf <- LastTask
    MaxRuns = 1
    Client = {c1, c2}
    NoTx = NoTx
SYMMETRY Interchangeable
CHECK_DEADLOCK FALSE
INVARIANT SuccessIsGrounded
INVARIANT PlanIsFollowed
INVARIANT SatisfactionIsEarned
PROPERTY GoalDecidedOnce
