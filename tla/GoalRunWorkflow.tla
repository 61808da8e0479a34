-------------------------- MODULE GoalRunWorkflow --------------------------
(***************************************************************************)
(* The durable workflow of one Run: planning, the wait for an approval,    *)
(* execution, evaluation, the wait for progress, and the signals that      *)
(* cancel, pause, resume or take over.                                     *)
(*                                                                         *)
(* Code between two awaits is one step.  Temporal runs signal handlers     *)
(* before the code they interrupt goes on, replays the code after a worker *)
(* died, and keeps a signal that arrives while the workflow continues as   *)
(* new.  An activity is attempted until it returns or its attempts are     *)
(* used up, which fails the workflow; an attempt that fails may have       *)
(* committed before its answer was lost.                                   *)
(*                                                                         *)
(* External: operators and their signals, the progress of Tasks and        *)
(* Outcomes (module GoalRun), decisions on approvals.                      *)
(***************************************************************************)
EXTENDS RunLifecycle, Naturals

CONSTANTS
    Approval,          \* approvals an ID of which may be signalled
    Own,               \* those of this Run; the others are taken to be approved
    NoApproval,
    MaxContinuations,  \* max_continuations
    MaxSignals         \* bound on the signals sent

ASSUME WorkflowAssumption ==
    /\ Own \subseteq Approval
    /\ NoApproval \notin Approval
    /\ MaxContinuations \in Nat
    /\ MaxSignals \in Nat

VARIABLES
    risky,       \* command: the risk tier asks for an approval
    requires,    \* command: requires_approval, dropped by continued()
    count,       \* command: continuation_count
    pc,          \* the await the workflow stands at
    after,       \* while paused: what _apply_control returns to, else "none"
    left,        \* attempts left of the running activity
    result,      \* what the closed workflow returned, "error" if it failed
    approvalId, cancel, takeover, paused,
    resumed,     \* _resume_generation has grown during the last wait for progress
    looked,      \* while loading: the approval load_approval was asked for
    signals,     \* number of signals sent
    status,      \* row of the Run
    planned,     \* the Run has a Plan
    work,        \* Tasks and Outcomes of the Run
    goal,        \* row of the Goal
    approval,    \* rows of the approvals
    expired      \* the business deadline has passed

command == <<risky, requires, count>>
control == <<approvalId, cancel, takeover, paused, resumed>>
rows == <<status, planned, work, goal, approval>>
vars == <<command, pc, after, left, result, control, looked, signals, rows, expired>>

Activities == {"planning", "loading", "executing", "evaluating", "satisfying", "cancelling",
               "taking_over", "rejecting"}
Waits == {"awaiting_approval", "waiting", "paused"}
Pcs == Activities \cup Waits \cup {"starting", "asserting", "closed"}
Continuations == {"begin", "approval", "evaluate", "continue"}

Results == {"succeeded", "failed", "cancelled", "taken_over", "rejected"}

\* idle: no Task started; unverified: Tasks and Actions succeeded; then what the Outcomes say.
Work == {"idle", "started", "unverified", "verified", "not_met"}
\* rejected stands for expired, too.
ApprovalStatus == {"none", "pending", "approved", "rejected"}

\* Control state, command and rows have values of their types; counters keep their limits.
TypeOK ==
    /\ risky \in BOOLEAN /\ requires \in BOOLEAN /\ count \in 0..MaxContinuations
    /\ pc \in Pcs /\ after \in Continuations \cup {"none"} /\ left \in 0..3
    /\ result \in Results \cup {"none", "error"}
    /\ approvalId \in Approval \cup {NoApproval}
    /\ cancel \in BOOLEAN /\ takeover \in BOOLEAN /\ paused \in BOOLEAN /\ resumed \in BOOLEAN
    /\ looked \in Approval \cup {NoApproval}
    /\ signals \in 0..MaxSignals
    /\ status \in RunStatus /\ planned \in BOOLEAN /\ work \in Work
    /\ goal \in {"active", "satisfied", "failed"}
    /\ approval \in [Approval -> ApprovalStatus]
    /\ expired \in BOOLEAN

Init ==
    /\ risky \in BOOLEAN /\ requires = risky /\ count = 0
    /\ pc = "starting" /\ after = "none" /\ left = 0 /\ result = "none"
    /\ approvalId = NoApproval /\ cancel = FALSE /\ takeover = FALSE
    /\ paused = FALSE /\ resumed = FALSE
    /\ looked = NoApproval /\ signals = 0
    /\ status = "pending" /\ planned = FALSE /\ work = "idle" /\ goal = "active"
    /\ approval = [a \in Approval |-> IF a \in Own THEN "none" ELSE "approved"]
    /\ expired = FALSE

-----------------------------------------------------------------------------
(* Control.                                                                 *)

\* maximum_attempts of the retry policy.
Attempts(p) ==
    IF p \in {"planning", "cancelling", "taking_over", "rejecting", "loading"} THEN 3
    ELSE IF p = "evaluating" THEN 2
    ELSE IF p = "executing" THEN 1 ELSE 0

Enter(p) == pc' = p /\ left' = Attempts(p) /\ UNCHANGED result

Close(r) == pc' = "closed" /\ left' = 0 /\ result' = r

MayContinue == count < MaxContinuations

\* What follows an _apply_control that found nothing to do.
Proceed(k) ==
    /\ after' = "none" /\ UNCHANGED <<risky, cancel, takeover, paused>>
    /\ \/ /\ k = "begin" /\ Enter(IF requires THEN "awaiting_approval" ELSE "executing")
          /\ UNCHANGED <<requires, count, approvalId, resumed, looked>>
       \/ /\ k = "approval" /\ approvalId # NoApproval
          /\ Enter("loading")
          /\ looked' = approvalId /\ approvalId' = NoApproval
          /\ UNCHANGED <<requires, count, resumed>>
       \/ /\ k = "approval" /\ approvalId = NoApproval
          /\ Enter("asserting")
          /\ UNCHANGED <<requires, count, approvalId, resumed, looked>>
       \/ /\ k = "evaluate" /\ Enter("evaluating")
          /\ UNCHANGED <<requires, count, approvalId, resumed, looked>>
       \/ /\ k = "continue" /\ MayContinue
          /\ Enter("starting")
          /\ requires' = FALSE /\ count' = count + 1
          /\ approvalId' = NoApproval /\ resumed' = FALSE /\ UNCHANGED looked
       \/ /\ k = "continue" /\ ~MayContinue
          /\ Enter("rejecting")
          /\ UNCHANGED <<requires, count, approvalId, resumed, looked>>

\* _apply_control: cancellation before takeover before pause.
Controlled(k) ==
    \/ /\ cancel \/ takeover
       /\ Enter(IF cancel THEN "cancelling" ELSE "taking_over") /\ after' = "none"
       /\ UNCHANGED <<command, control, looked>>
    \/ /\ ~cancel /\ ~takeover /\ paused
       /\ Enter("paused") /\ after' = k
       /\ UNCHANGED <<command, control, looked>>
    \/ /\ ~cancel /\ ~takeover /\ ~paused
       /\ Proceed(k)

\* A new execution of the workflow plans, one that continues does not.
Begin ==
    /\ pc = "starting"
    /\ IF count = 0 THEN Enter("planning") /\ UNCHANGED <<command, after, control, looked>>
       ELSE Controlled("begin")
    /\ UNCHANGED <<signals, rows, expired>>

\* Mutant: cancellation does not end the wait.
WokenByProgress ==
    \/ pc = "awaiting_approval" /\ (approvalId # NoApproval \/ takeover \/ paused)
    \/ pc = "waiting" /\ (resumed \/ takeover \/ paused)
    \/ pc = "paused" /\ (~paused \/ takeover)

\* The wait conditions.
Woken ==
    \/ pc = "awaiting_approval" /\ (approvalId # NoApproval \/ cancel \/ takeover \/ paused)
    \/ pc = "waiting" /\ (resumed \/ cancel \/ takeover \/ paused)
    \/ pc = "paused" /\ (~paused \/ cancel \/ takeover)

Wake ==
    /\ Woken
    /\ \/ pc = "awaiting_approval" /\ Controlled("approval")
       \/ pc = "waiting" /\ Controlled("continue")
       \/ pc = "paused" /\ Controlled(after)
    /\ UNCHANGED <<signals, rows, expired>>

\* The assertion that an approval ID is there has failed: the workflow task is tried again
\* together with the signals that have arrived since.
RetryAssertion ==
    /\ pc = "asserting"
    /\ approvalId # NoApproval \/ cancel \/ takeover \/ paused
    /\ Controlled("approval")
    /\ UNCHANGED <<signals, rows, expired>>

\* Mutant: a paused workflow has no deadline.
TimedWaits == {"awaiting_approval", "waiting"}

\* The waits with the business deadline for a timeout.
DeadlineWaits == {"awaiting_approval", "waiting", "paused"}

Expire ==
    /\ pc \in DeadlineWaits /\ expired
    /\ Enter("rejecting") /\ after' = "none"
    /\ UNCHANGED <<command, control, looked, signals, rows, expired>>

-----------------------------------------------------------------------------
(* Activities.                                                              *)

\* Mutant: the database is not asked.
TakeoverBelieved == TRUE

\* take_over_run: the operator's takeover is in the database.
TakeoverPersisted == status = "blocked"

\* cancel_run and reject_run: what _transition_run accepts.
Reaches(target) == status = target \/ <<status, target>> \in RunTransitions

\* complete_run; its ValueError leaves the Run as it is.
Completed ==
    IF status \notin {"running", "awaiting_evidence"} \/ work \in {"idle", "started"} THEN status
    ELSE IF work = "verified" THEN "succeeded"
    ELSE IF work = "not_met" THEN "failed" ELSE "awaiting_evidence"

\* execute_run starts the Tasks unless the Run has ended; it does not look for a takeover.
Dispatched == IF status \notin RunTerminal /\ work = "idle" THEN "started" ELSE work

\* An attempt of the activity at pc commits.
Commits ==
    \/ /\ pc = "planning" /\ (planned \/ status = "pending")
       /\ planned' = TRUE /\ status' = (IF planned THEN status ELSE "running")
       /\ UNCHANGED <<work, goal>>
    \/ /\ pc = "executing" /\ work' = Dispatched
       /\ UNCHANGED <<status, planned, goal>>
    \/ /\ pc = "evaluating" /\ status' = Completed
       /\ UNCHANGED <<planned, work, goal>>
    \/ /\ pc = "satisfying" /\ goal' = (IF goal = "active" THEN "satisfied" ELSE goal)
       /\ UNCHANGED <<status, planned, work>>
    \/ /\ pc = "cancelling" /\ Reaches("cancelled") /\ status' = "cancelled"
       /\ UNCHANGED <<planned, work, goal>>
    \/ /\ pc = "rejecting" /\ Reaches("failed") /\ status' = "failed"
       /\ UNCHANGED <<planned, work, goal>>
    \/ /\ pc = "taking_over" /\ TakeoverPersisted
       /\ UNCHANGED <<status, planned, work, goal>>

\* Mutant: the approval of another Run will do.
AnyBinding(a) == approval[a] # "none"

\* load_approval: the approval exists and is bound to the Run.
Bound(a) == a \in Own /\ approval[a] # "none"

\* Mutant: signals are looked at later.
EvaluateAtOnce == Proceed("evaluate")

\* Cancellation, pause or takeover received while the activity ran takes effect first.
AfterExecution == Controlled("evaluate")

\* The result of evaluate_run is the status of the Run; a succeeded Run satisfies its Goal
\* in a second transaction of the same attempt.
AfterEvaluation ==
    \/ /\ status' = "succeeded"
       /\ pc' = "satisfying" /\ UNCHANGED <<left, result, control>>
    \/ /\ status' \in {"failed", "cancelled"}
       /\ Close(status') /\ UNCHANGED control
    \/ /\ status' \notin RunTerminal
       /\ Enter("waiting") /\ resumed' = FALSE
       /\ UNCHANGED <<approvalId, cancel, takeover, paused>>

\* The attempt returns and the workflow goes on.
Return ==
    /\ Commits
    /\ \/ pc = "planning" /\ Controlled("begin")
       \/ pc = "executing" /\ AfterExecution
       \/ pc = "evaluating" /\ AfterEvaluation /\ UNCHANGED <<command, after, looked>>
       \/ /\ \/ pc = "satisfying" /\ Close("succeeded")
             \/ pc = "cancelling" /\ Close("cancelled")
             \/ pc = "rejecting" /\ Close("rejected")
             \/ pc = "taking_over" /\ Close("taken_over")
          /\ UNCHANGED <<command, after, control, looked>>
    /\ UNCHANGED <<signals, approval, expired>>

\* load_approval returns; what is not a decision is waited for.
LoadReturns ==
    /\ pc = "loading" /\ Bound(looked)
    /\ \/ approval[looked] = "approved" /\ Enter("executing")
       \/ approval[looked] = "rejected" /\ Enter("rejecting")
       \/ approval[looked] = "pending" /\ Enter("awaiting_approval")
    /\ looked' = NoApproval
    /\ UNCHANGED <<command, after, control, signals, rows, expired>>

\* An exception, a timeout or the death of the worker, before or after the commit.
Fail ==
    /\ pc \in Activities
    /\ IF left > 1
       THEN /\ left' = left - 1 /\ pc' = (IF pc = "satisfying" THEN "evaluating" ELSE pc)
            /\ UNCHANGED result
            /\ UNCHANGED looked
       ELSE Close("error") /\ looked' = NoApproval
    /\ Commits \/ UNCHANGED <<status, planned, work, goal>>
    /\ UNCHANGED <<command, after, control, signals, approval, expired>>

-----------------------------------------------------------------------------
(* Signals and surroundings.                                                *)

Sent ==
    /\ pc # "closed" /\ signals < MaxSignals
    /\ signals' = signals + 1
    /\ UNCHANGED <<command, pc, after, left, result, looked, rows, expired>>

ApprovalDecided(a) ==
    /\ Sent /\ approvalId' = a /\ UNCHANGED <<cancel, takeover, paused, resumed>>

CancelSignal == Sent /\ cancel' = TRUE /\ UNCHANGED <<approvalId, takeover, paused, resumed>>
PauseSignal == Sent /\ paused' = TRUE /\ UNCHANGED <<approvalId, cancel, takeover, resumed>>
ResumeSignal ==
    /\ Sent /\ paused' = FALSE /\ resumed' = (resumed \/ pc = "waiting")
    /\ UNCHANGED <<approvalId, cancel, takeover>>
TakeOverSignal == Sent /\ takeover' = TRUE /\ UNCHANGED <<approvalId, cancel, paused, resumed>>

Surrounds == UNCHANGED <<command, pc, after, left, result, control, looked, signals>>

\* Surroundings that nobody but the workflow looks at stop with it.
Watched == pc # "closed" /\ Surrounds

\* The API cancels the Run or takes it over in the database, without a signal.
OperatorMoves(target) ==
    /\ <<status, target>> \in RunTransitions
    /\ status' = target
    /\ Surrounds /\ UNCHANGED <<planned, work, goal, approval, expired>>

\* satisfy_or_fail_goal by another caller, all Runs having ended.
OperatorFailsGoal ==
    /\ goal = "active" /\ status \in RunTerminal
    /\ goal' = "failed"
    /\ Surrounds /\ UNCHANGED <<status, planned, work, approval, expired>>

WorkProgresses(w) ==
    /\ <<work, w>> \in {<<"started", "unverified">>, <<"unverified", "verified">>,
                        <<"unverified", "not_met">>}
    /\ work' = w
    /\ Watched /\ UNCHANGED <<status, planned, goal, approval, expired>>

\* request_approval, decide_approval.
ApprovalMoves(a, s) ==
    /\ \/ approval[a] = "none" /\ s = "pending"
       \/ approval[a] = "pending" /\ s \in {"approved", "rejected"}
    /\ approval' = [approval EXCEPT ![a] = s]
    /\ Watched /\ UNCHANGED <<status, planned, work, goal, expired>>

DeadlinePasses ==
    /\ ~expired /\ expired' = TRUE
    /\ Watched /\ UNCHANGED rows

-----------------------------------------------------------------------------
Workflow == Begin \/ Wake \/ RetryAssertion \/ Expire \/ Return \/ LoadReturns \/ Fail

Signal ==
    \/ \E a \in Approval : ApprovalDecided(a)
    \/ CancelSignal \/ PauseSignal \/ ResumeSignal \/ TakeOverSignal

Surroundings ==
    \/ \E s \in {"cancelled", "blocked"} : OperatorMoves(s)
    \/ OperatorFailsGoal
    \/ \E w \in Work : WorkProgresses(w)
    \/ \E a \in Own, s \in ApprovalStatus : ApprovalMoves(a, s)
    \/ DeadlinePasses

Next == Workflow \/ Signal \/ Surroundings

\* Temporal keeps running the workflow and bounds every attempt by a timeout; nothing is
\* assumed of operators, and the deadline need not pass.
Spec == Init /\ [][Next]_vars /\ WF_vars(Workflow)

-----------------------------------------------------------------------------
(* Properties.                                                              *)

\* A Run whose risk asks for an approval is executed only with an approved approval of its
\* own (_await_authoritative_approval, load_approval), also after it continued as new with
\* requires_approval dropped, and whatever IDs were signalled.
ApprovedBeforeExecution ==
    (risky /\ (pc \in {"executing", "evaluating", "satisfying", "waiting"} \/ count > 0)) =>
        \E a \in Own : approval[a] = "approved"

\* What the workflow returned is what the Run's row says, although operators move the row
\* and attempts are repeated: a cancelled result has a cancelled Run, a takeover one that
\* was blocked, a success a succeeded Run and a decided Goal.
ResultMatchesRun ==
    /\ result \in {"cancelled", "failed", "succeeded"} => status = result
    /\ result = "rejected" => status = "failed"
    /\ result = "taken_over" => status \in {"blocked", "failed", "cancelled"}
    /\ result = "succeeded" => goal # "active"

\* A cancellation, pause or takeover that was signalled while execute_run ran takes effect
\* before evaluation starts (workflows.py:101).
ControlBeforeEvaluation ==
    [][pc = "executing" /\ pc' = "evaluating" => ~cancel /\ ~takeover /\ ~paused]_vars

\* A cancel signal ends the workflow in the end, wherever it is and also if the deadline
\* never passes.
CancelEnds == cancel ~> pc = "closed"

\* After the business deadline the workflow ends, except where the assertion on the approval
\* ID holds it (workflows.py:164).
DeadlineEnds == [](expired => <>[](pc \in {"closed", "asserting"}))
=============================================================================
