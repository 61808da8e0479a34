SPECIFICATION Spec
CONSTANTS
    Approval = {mine, other}
    Own = {mine}
    NoApproval = NoApproval
    MaxContinuations = 1
    MaxSignals = 3
CHECK_DEADLOCK FALSE
INVARIANT ApprovedBeforeExecution
INVARIANT ResultMatchesRun
PROPERTY ControlBeforeEvaluation
PROPERTY CancelEnds
PROPERTY DeadlineEnds
