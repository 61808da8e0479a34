------------------------------ MODULE GoalRun ------------------------------
(***************************************************************************)
(* Goals, Runs, Tasks and Outcomes: the use cases of                       *)
(* GoalExecutionApplication around the governed execution of Actions.      *)
(*                                                                         *)
(* A use case is one READ COMMITTED transaction.  One that writes the row  *)
(* it has read, on conditions that stay true once they are true, is one    *)
(* step: the optimistic version makes it so.  The others are split: a      *)
(* client reads (tx), anybody else commits, then the client decides on     *)
(* what it saw and writes.  A Run or Goal never returns to a status it has *)
(* left, so "the version is the one read" is "the status is the one read". *)
(*                                                                         *)
(* External: how an Action is executed (module GovernedExecution), what    *)
(* the authoritative source answers, who calls which use case when.        *)
(***************************************************************************)
EXTENDS RunLifecycle, Naturals, FiniteSets

CONSTANTS
    Goal, Run, Task, Action, Criterion,
    GoalOf,      \* [Run -> Goal]
    RunOf,       \* [Task -> Run], the Tasks of the Plan a planner makes for the Run
    DependsOn,   \* [Task -> SUBSET Task], acyclic, as Plan requires
    TaskOf,      \* [Action -> Task]
    MaxRuns,     \* max_concurrent_runs
    Client,      \* callers with a transaction open
    NoTx

RunOfAction(a) == RunOf[TaskOf[a]]
TasksOf(r) == {t \in Task : RunOf[t] = r}
ActionsOf(r) == {a \in Action : RunOfAction(a) = r}
RunsOf(g) == {r \in Run : GoalOf[r] = g}

ASSUME GoalRunAssumption ==
    /\ GoalOf \in [Run -> Goal]
    /\ RunOf \in [Task -> Run]
    /\ DependsOn \in [Task -> SUBSET Task]
    /\ \A t \in Task, d \in Task : d \in DependsOn[t] => d # t /\ RunOf[d] = RunOf[t]
    /\ TaskOf \in [Action -> Task]
    /\ MaxRuns \in Nat \ {0}
    /\ Criterion # {}

VARIABLES
    goal,      \* goals: status, "none" before create_goal
    expired,   \* Goals past their deadline
    status,    \* runs: status, "none" before request_run
    prepared,  \* Runs with a context snapshot
    task,      \* tasks: status, "none" before the Plan
    action,    \* actions: "none", "open" (any unsettled status), "succeeded" or "closed"
    captured,  \* Actions with integrity-verified Evidence
    outcome,   \* outcomes: status per Run and criterion, "none" before verify_outcome
    tx         \* each client's open transaction: what it has read

rows == <<goal, expired, status, prepared, task, action, captured, outcome>>
vars == <<rows, tx>>

GoalStatus == {"draft", "active", "satisfied", "failed"}
TaskStatus == {"pending", "running", "succeeded", "failed"}
OutcomeStatus == {"unknown", "not_met", "verified"}

\* request: has counted; plan: has read the pending Run; move: is to write target;
\* complete: has found Tasks and Actions succeeded; propose: has read the running Task;
\* fail: has found every Run of the Goal ended.
Tx == [op : {"request"}, run : Run]
        \cup [op : {"plan", "complete"}, run : Run, seen : RunStatus]
        \cup [op : {"move"}, run : Run, seen : RunStatus, target : RunStatus]
        \cup [op : {"propose"}, action : Action]
        \cup [op : {"fail"}, goal : Goal, seen : GoalStatus]

\* Every row is in a status its table allows and every open transaction is one of the kinds.
TypeOK ==
    /\ goal \in [Goal -> GoalStatus \cup {"none"}]
    /\ expired \subseteq Goal
    /\ status \in [Run -> RunStatus \cup {"none"}]
    /\ prepared \subseteq Run
    /\ task \in [Task -> TaskStatus \cup {"none"}]
    /\ action \in [Action -> {"none", "open", "succeeded", "closed"}]
    /\ captured \subseteq Action
    /\ outcome \in [Run -> [Criterion -> OutcomeStatus \cup {"none"}]]
    /\ tx \in [Client -> Tx \cup {NoTx}]

Init ==
    /\ goal = [g \in Goal |-> "none"]
    /\ expired = {}
    /\ status = [r \in Run |-> "none"]
    /\ prepared = {}
    /\ task = [t \in Task |-> "none"]
    /\ action = [a \in Action |-> "none"]
    /\ captured = {}
    /\ outcome = [r \in Run |-> [k \in Criterion |-> "none"]]
    /\ tx = [c \in Client |-> NoTx]

Idle(c) == tx[c] = NoTx
Open(c, t) == tx' = [tx EXCEPT ![c] = t]
Close(c) == tx' = [tx EXCEPT ![c] = NoTx]
Doing(c, op) == tx[c] # NoTx /\ tx[c].op = op

-----------------------------------------------------------------------------
(* Goals.                                                                   *)

CreateGoal(g) ==
    /\ goal[g] = "none"
    /\ goal' = [goal EXCEPT ![g] = "draft"]
    /\ UNCHANGED <<expired, status, prepared, task, action, captured, outcome, tx>>

ActivateGoal(g) ==
    /\ goal[g] = "draft" /\ g \notin expired
    /\ goal' = [goal EXCEPT ![g] = "active"]
    /\ UNCHANGED <<expired, status, prepared, task, action, captured, outcome, tx>>

DeadlinePasses(g) ==
    /\ goal[g] # "none"
    /\ expired' = expired \cup {g}
    /\ UNCHANGED <<goal, status, prepared, task, action, captured, outcome, tx>>

\* The criteria of the Goal a Run has verified Outcomes for are all of them.
AllVerified(r) == \A k \in Criterion : outcome[r][k] = "verified"

\* Mutant: any Run of the Goal with verified Outcomes will do.
VerifiedRun(r) == AllVerified(r)

\* satisfy_or_fail_goal, satisfied: what it looks for among the Runs.
SatisfyingRun(r) == status[r] = "succeeded" /\ AllVerified(r)

SatisfyGoal(g) ==
    /\ goal[g] = "active"
    /\ \E r \in RunsOf(g) : SatisfyingRun(r)
    /\ goal' = [goal EXCEPT ![g] = "satisfied"]
    /\ UNCHANGED <<expired, status, prepared, task, action, captured, outcome, tx>>

\* _run_is_active.
Active(r) == status[r] \in RunStatus \ RunTerminal

\* satisfy_or_fail_goal, not satisfied: all Runs have ended.
ReadEndedRuns(c, g) ==
    /\ Idle(c) /\ goal[g] = "active"
    /\ \E r \in RunsOf(g) : status[r] # "none"
    /\ \A r \in RunsOf(g) : ~Active(r)
    /\ Open(c, [op |-> "fail", goal |-> g, seen |-> goal[g]])
    /\ UNCHANGED rows

\* Mutant: the save does not compare versions.
GoalVersionIgnored(c) == TRUE

\* save_goal finds the version that was read.
GoalVersionMatches(c) == goal[tx[c].goal] = tx[c].seen

FailGoal(c) ==
    /\ Doing(c, "fail") /\ GoalVersionMatches(c)
    /\ goal' = [goal EXCEPT ![tx[c].goal] = "failed"]
    /\ Close(c)
    /\ UNCHANGED <<expired, status, prepared, task, action, captured, outcome>>

-----------------------------------------------------------------------------
(* Runs.                                                                    *)

\* request_run reads the Goal and counts its active Runs.  The id of the Run is fresh.
CountRuns(c, r) ==
    LET g == GoalOf[r] IN
    /\ Idle(c) /\ status[r] = "none"
    /\ \A d \in Client : ~(Doing(d, "request") /\ tx[d].run = r)
    /\ goal[g] = "active" /\ g \notin expired
    /\ Cardinality({q \in RunsOf(g) : Active(q)}) < MaxRuns
    /\ Open(c, [op |-> "request", run |-> r])
    /\ UNCHANGED rows

AddRun(c) ==
    /\ Doing(c, "request")
    /\ status' = [status EXCEPT ![tx[c].run] = "pending"]
    /\ Close(c)
    /\ UNCHANGED <<goal, expired, prepared, task, action, captured, outcome>>

\* The Run's status is not looked at.  A second snapshot violates uq_context_snapshot_run.
PrepareRunContext(r) ==
    /\ status[r] # "none" /\ r \notin prepared
    /\ prepared' = prepared \cup {r}
    /\ UNCHANGED <<goal, expired, status, task, action, captured, outcome, tx>>

\* create_validated_plan; a Plan without Tasks is refused.
ReadPendingRun(c, r) ==
    /\ Idle(c) /\ status[r] = "pending" /\ r \in prepared /\ TasksOf(r) # {}
    /\ Open(c, [op |-> "plan", run |-> r, seen |-> status[r]])
    /\ UNCHANGED rows

\* cancel_run, fail_run, take_over_run.
ReadRun(c, r, target) ==
    /\ Idle(c) /\ <<status[r], target>> \in RunTransitions
    /\ Open(c, [op |-> "move", run |-> r, seen |-> status[r], target |-> target])
    /\ UNCHANGED rows

\* save_run finds the version that was read.
RunVersionMatches(c) == status[tx[c].run] = tx[c].seen

SavePlan(c) ==
    LET r == tx[c].run IN
    /\ Doing(c, "plan") /\ RunVersionMatches(c)
    /\ status' = [status EXCEPT ![r] = "running"]
    /\ task' = [t \in Task |-> IF RunOf[t] = r THEN "pending" ELSE task[t]]
    /\ Close(c)
    /\ UNCHANGED <<goal, expired, prepared, action, captured, outcome>>

SaveRun(c) ==
    /\ Doing(c, "move") /\ RunVersionMatches(c)
    /\ status' = [status EXCEPT ![tx[c].run] = tx[c].target]
    /\ Close(c)
    /\ UNCHANGED <<goal, expired, prepared, task, action, captured, outcome>>

\* complete_run's condition on the Tasks and Actions it lists.
WorkFinished(r) ==
    /\ \A t \in TasksOf(r) : task[t] = "succeeded"
    /\ \A a \in ActionsOf(r) : action[a] \in {"none", "succeeded"}

\* complete_run reads the Run, its Tasks and its Actions.
ReadWork(c, r) ==
    /\ Idle(c) /\ status[r] \in {"running", "awaiting_evidence"}
    /\ WorkFinished(r)
    /\ Open(c, [op |-> "complete", run |-> r, seen |-> status[r]])
    /\ UNCHANGED rows

\* Mutant: an observed Outcome counts as a verified one.
TargetByObservation(r) ==
    IF \A k \in Criterion : outcome[r][k] # "none" THEN "succeeded" ELSE "awaiting_evidence"

\* What complete_run makes of the Outcomes it lists.
CompletionTarget(r) ==
    IF AllVerified(r) THEN "succeeded"
    ELSE IF /\ \A k \in Criterion : outcome[r][k] # "none"
            /\ \E k \in Criterion : outcome[r][k] = "not_met"
         THEN "failed"
         ELSE "awaiting_evidence"

\* complete_run reads the Outcomes; a Run already in the target status is left alone.
ReadOutcomes(c) ==
    LET r == tx[c].run
        target == CompletionTarget(r)
    IN  /\ Doing(c, "complete")
        /\ IF target = tx[c].seen THEN Close(c)
           ELSE Open(c, [op |-> "move", run |-> r, seen |-> tx[c].seen, target |-> target])
        /\ UNCHANGED rows

\* The version has changed, the process dies, or the connection is lost: rolled back.
Rollback(c) == ~Idle(c) /\ Close(c) /\ UNCHANGED rows

-----------------------------------------------------------------------------
(* Tasks, Actions, Evidence and Outcomes.  No use case looks at the Run's   *)
(* status.                                                                  *)

\* Mutant: Tasks start in any order.
Unordered(t) == TRUE

DependenciesMet(t) == \A d \in DependsOn[t] : task[d] = "succeeded"

StartTask(t) ==
    /\ task[t] = "pending" /\ DependenciesMet(t)
    /\ task' = [task EXCEPT ![t] = "running"]
    /\ UNCHANGED <<goal, expired, status, prepared, action, captured, outcome, tx>>

CompleteTask(t, target) ==
    /\ task[t] = "running"
    /\ task' = [task EXCEPT ![t] = target]
    /\ UNCHANGED <<goal, expired, status, prepared, action, captured, outcome, tx>>

\* propose_action reads the Task and its Run's snapshot.
ReadRunningTask(c, a) ==
    /\ Idle(c) /\ action[a] = "none" /\ task[TaskOf[a]] = "running"
    /\ \A d \in Client : ~(Doing(d, "propose") /\ tx[d].action = a)
    /\ Open(c, [op |-> "propose", action |-> a])
    /\ UNCHANGED rows

AddAction(c) ==
    /\ Doing(c, "propose")
    /\ action' = [action EXCEPT ![tx[c].action] = "open"]
    /\ Close(c)
    /\ UNCHANGED <<goal, expired, status, prepared, task, captured, outcome>>

SettleAction(a, result) ==
    /\ action[a] = "open"
    /\ action' = [action EXCEPT ![a] = result]
    /\ UNCHANGED <<goal, expired, status, prepared, task, captured, outcome, tx>>

\* capture_authoritative_evidence, taken as a whole.
CaptureEvidence(a) ==
    /\ action[a] = "succeeded"
    /\ captured' = captured \cup {a}
    /\ UNCHANGED <<goal, expired, status, prepared, task, action, outcome, tx>>

\* TrustedOutcomeVerifier.verify: without valid authoritative Evidence of the Run, unknown;
\* with it, what a second look at the source says, if artifact and source still agree.
Verdicts(r) == IF captured \cap ActionsOf(r) = {} THEN {"unknown"} ELSE OutcomeStatus

\* One Outcome per Run and criterion: uq_outcome_criterion.
VerifyOutcome(r, k, verdict) ==
    /\ status[r] # "none" /\ outcome[r][k] = "none"
    /\ verdict \in Verdicts(r)
    /\ outcome' = [outcome EXCEPT ![r][k] = verdict]
    /\ UNCHANGED <<goal, expired, status, prepared, task, action, captured, tx>>

-----------------------------------------------------------------------------
GoalStep(g) == CreateGoal(g) \/ ActivateGoal(g) \/ DeadlinePasses(g) \/ SatisfyGoal(g)

WorkStep ==
    \/ \E r \in Run : PrepareRunContext(r)
    \/ \E t \in Task : StartTask(t) \/ \E s \in {"succeeded", "failed"} : CompleteTask(t, s)
    \/ \E a \in Action : \/ CaptureEvidence(a)
                         \/ \E s \in {"succeeded", "closed"} : SettleAction(a, s)
    \/ \E r \in Run, k \in Criterion, s \in OutcomeStatus : VerifyOutcome(r, k, s)

ClientStep(c) ==
    \/ \E g \in Goal : ReadEndedRuns(c, g)
    \/ FailGoal(c)
    \/ \E r \in Run : \/ CountRuns(c, r) \/ ReadPendingRun(c, r) \/ ReadWork(c, r)
                      \/ \E s \in {"cancelled", "failed", "blocked"} : ReadRun(c, r, s)
    \/ AddRun(c) \/ SavePlan(c) \/ ReadOutcomes(c) \/ SaveRun(c)
    \/ \E a \in Action : ReadRunningTask(c, a)
    \/ AddAction(c)
    \/ Rollback(c)

Next == (\E g \in Goal : GoalStep(g)) \/ WorkStep \/ (\E c \in Client : ClientStep(c))

Spec == Init /\ [][Next]_vars

-----------------------------------------------------------------------------
(* Properties.                                                              *)

\* A succeeded Run has done all its Tasks, has a verified Outcome for every criterion, and
\* has authoritative Evidence of an Action that succeeded - whatever was recorded, cancelled
\* or taken over between the reads of complete_run and its save.
SuccessIsGrounded ==
    \A r \in Run : status[r] = "succeeded" =>
        /\ \A t \in TasksOf(r) : task[t] = "succeeded"
        /\ AllVerified(r)
        /\ \E a \in captured : RunOfAction(a) = r /\ action[a] = "succeeded"

\* Tasks exist in started Runs only, and a Task starts after the Tasks it depends on have
\* succeeded (create_validated_plan, start_task).
PlanIsFollowed ==
    \A t \in Task : task[t] # "none" =>
        /\ status[RunOf[t]] \notin {"none", "pending"}
        /\ task[t] # "pending" => \A d \in DependsOn[t] : task[d] = "succeeded"

\* A satisfied Goal has a Run that succeeded (satisfy_or_fail_goal).
SatisfactionIsEarned ==
    \A g \in Goal : goal[g] = "satisfied" => \E r \in RunsOf(g) : status[r] = "succeeded"

\* Concurrent use cases on one Run move it along _RUN_TRANSITIONS only; a Run an operator
\* has taken over (blocked) is failed or cancelled later, never completed.
RunMovesLegally ==
    [][\A r \in Run : status'[r] # status[r] =>
          /\ status[r] = "none" \/ <<status[r], status'[r]>> \in RunTransitions
          /\ status[r] = "blocked" => status'[r] \in {"failed", "cancelled"}]_vars

\* The terminal decision on a Goal is taken once: a late failure does not overwrite a
\* satisfaction, nor the other way round.
GoalDecidedOnce ==
    [][\A g \in Goal : goal[g] \in {"satisfied", "failed"} => goal'[g] = goal[g]]_vars
=============================================================================
