--------------------------- MODULE GoalRun_proofs ---------------------------
(***************************************************************************)
(* Proofs about GoalRun, for any Goals, Runs, Plans, criteria and clients: *)
(* typing, what success rests on, and which moves concurrent use cases can *)
(* make.                                                                   *)
(***************************************************************************)
EXTENDS GoalRun, TLAPS

USE GoalRunAssumption

\* Evidence is captured of succeeded Actions.
EvidenceIsReal == \A a \in captured : action[a] = "succeeded"

\* A verdict other than unknown rests on Evidence of the Run.
VerdictsAreGrounded ==
    \A r \in Run, k \in Criterion :
        outcome[r][k] \in {"verified", "not_met"} => \E a \in captured : RunOfAction(a) = r

\* Ids of requested Runs and proposed Actions are fresh.
IdsAreFresh ==
    \A c \in Client :
        /\ Doing(c, "request") =>
             /\ status[tx[c].run] = "none"
             /\ \A d \in Client : Doing(d, "request") /\ tx[d].run = tx[c].run => d = c
        /\ Doing(c, "propose") =>
             /\ action[tx[c].action] = "none"
             /\ \A d \in Client : Doing(d, "propose") /\ tx[d].action = tx[c].action => d = c

\* What an open transaction has read, as far as it is still true.
ReadsHold ==
    \A c \in Client :
        /\ Doing(c, "plan") => tx[c].seen = "pending"
        /\ Doing(c, "complete") =>
             /\ tx[c].seen \in {"running", "awaiting_evidence"}
             /\ \A t \in TasksOf(tx[c].run) : task[t] = "succeeded"
        /\ Doing(c, "move") =>
             /\ <<tx[c].seen, tx[c].target>> \in RunTransitions
             /\ tx[c].target # "running"
             /\ tx[c].target = "succeeded" =>
                  /\ \A t \in TasksOf(tx[c].run) : task[t] = "succeeded"
                  /\ AllVerified(tx[c].run)
        /\ Doing(c, "fail") => tx[c].seen = "active"

IInv ==
    /\ TypeOK /\ EvidenceIsReal /\ VerdictsAreGrounded /\ IdsAreFresh /\ ReadsHold
    /\ PlanIsFollowed /\ SuccessIsGrounded /\ SatisfactionIsEarned

-----------------------------------------------------------------------------
(* Typing.                                                                  *)

\* What an open transaction holds.
LEMMA TxFields ==
    ASSUME TypeOK, NEW c \in Client, tx[c] # NoTx
    PROVE  /\ tx[c] \in Tx
           /\ tx[c].op = "request" => tx[c].run \in Run
           /\ tx[c].op \in {"plan", "complete"} => tx[c].run \in Run /\ tx[c].seen \in RunStatus
           /\ tx[c].op = "move" =>
                tx[c].run \in Run /\ tx[c].seen \in RunStatus /\ tx[c].target \in RunStatus
           /\ tx[c].op = "propose" => tx[c].action \in Action
           /\ tx[c].op = "fail" => tx[c].goal \in Goal /\ tx[c].seen \in GoalStatus
BY DEF TypeOK, Tx

\* Opening and closing a transaction keeps tx well typed.
LEMMA TxType ==
    ASSUME TypeOK, NEW c \in Client,
           Close(c) \/ (\E t \in Tx : Open(c, t))
    PROVE  tx' \in [Client -> Tx \cup {NoTx}]
BY DEF TypeOK, Open, Close

\* A move of a Run ends in a status of a Run.
LEMMA MoveTarget ==
    ASSUME NEW s, NEW target, <<s, target>> \in RunTransitions
    PROVE  s \in RunStatus /\ target \in RunStatus
BY DEF RunTransitions, RunStatus

\* A client's step keeps the types.
LEMMA ClientTypeStep ==
    ASSUME TypeOK, NEW c \in Client, ClientStep(c)
    PROVE  TypeOK'
<1>1. CASE UNCHANGED rows /\ (Close(c) \/ \E t \in Tx : Open(c, t))
  <2>1. tx' \in [Client -> Tx \cup {NoTx}]
    BY <1>1, TxType
  <2>2. QED
    BY <1>1, <2>1 DEF TypeOK, rows
<1>2. ASSUME NEW g \in Goal, ReadEndedRuns(c, g) PROVE TypeOK'
  <2>1. [op |-> "fail", goal |-> g, seen |-> goal[g]] \in Tx
    BY <1>2 DEF ReadEndedRuns, Tx, GoalStatus
  <2>2. QED
    BY <1>1, <1>2, <2>1 DEF ReadEndedRuns
<1>3. CASE FailGoal(c)
  <2>1. Close(c) /\ tx[c].goal \in Goal
    BY <1>3, TxFields DEF FailGoal, Doing
  <2>2. QED
    BY <1>3, <2>1, TxType DEF FailGoal, TypeOK, GoalStatus
<1>4. ASSUME NEW r \in Run, CountRuns(c, r) PROVE TypeOK'
  <2>1. [op |-> "request", run |-> r] \in Tx
    BY DEF Tx
  <2>2. QED
    BY <1>1, <1>4, <2>1 DEF CountRuns
<1>5. ASSUME NEW r \in Run, ReadPendingRun(c, r) PROVE TypeOK'
  <2>1. [op |-> "plan", run |-> r, seen |-> status[r]] \in Tx
    BY <1>5 DEF Tx, ReadPendingRun, RunStatus
  <2>2. QED
    BY <1>1, <1>5, <2>1 DEF ReadPendingRun
<1>6. ASSUME NEW r \in Run, ReadWork(c, r) PROVE TypeOK'
  <2>1. [op |-> "complete", run |-> r, seen |-> status[r]] \in Tx
    BY <1>6 DEF Tx, ReadWork, RunStatus
  <2>2. QED
    BY <1>1, <1>6, <2>1 DEF ReadWork
<1>7. ASSUME NEW r \in Run, NEW s, ReadRun(c, r, s) PROVE TypeOK'
  <2>1. [op |-> "move", run |-> r, seen |-> status[r], target |-> s] \in Tx
    BY <1>7, MoveTarget DEF Tx, ReadRun
  <2>2. QED
    BY <1>1, <1>7, <2>1 DEF ReadRun
<1>8. CASE AddRun(c)
  <2>1. Close(c) /\ tx[c].run \in Run
    BY <1>8, TxFields DEF AddRun, Doing
  <2>2. QED
    BY <1>8, <2>1, TxType DEF AddRun, TypeOK, RunStatus
<1>9. CASE SavePlan(c)
  <2>1. Close(c) /\ tx[c].run \in Run
    BY <1>9, TxFields DEF SavePlan, Doing
  <2>2. task' \in [Task -> TaskStatus \cup {"none"}]
    BY <1>9 DEF SavePlan, TypeOK, TaskStatus
  <2>3. status' \in [Run -> RunStatus \cup {"none"}]
    BY <1>9, <2>1 DEF SavePlan, TypeOK, RunStatus
  <2>4. QED
    BY <1>9, <2>1, <2>2, <2>3, TxType DEF SavePlan, TypeOK
<1>10. CASE ReadOutcomes(c)
  <2>1. tx[c].run \in Run /\ tx[c].seen \in RunStatus
    BY <1>10, TxFields DEF ReadOutcomes, Doing
  <2>2. CompletionTarget(tx[c].run) \in RunStatus
    BY DEF CompletionTarget, RunStatus
  <2>3. [op |-> "move", run |-> tx[c].run, seen |-> tx[c].seen,
         target |-> CompletionTarget(tx[c].run)] \in Tx
    BY <2>1, <2>2 DEF Tx
  <2>4. QED
    BY <1>1, <1>10, <2>3 DEF ReadOutcomes
<1>11. CASE SaveRun(c)
  <2>1. Close(c) /\ tx[c].run \in Run /\ tx[c].target \in RunStatus
    BY <1>11, TxFields DEF SaveRun, Doing
  <2>2. QED
    BY <1>11, <2>1, TxType DEF SaveRun, TypeOK
<1>12. ASSUME NEW a \in Action, ReadRunningTask(c, a) PROVE TypeOK'
  <2>1. [op |-> "propose", action |-> a] \in Tx
    BY DEF Tx
  <2>2. QED
    BY <1>1, <1>12, <2>1 DEF ReadRunningTask
<1>13. CASE AddAction(c)
  <2>1. Close(c) /\ tx[c].action \in Action
    BY <1>13, TxFields DEF AddAction, Doing
  <2>2. QED
    BY <1>13, <2>1, TxType DEF AddAction, TypeOK
<1>14. CASE Rollback(c)
  BY <1>1, <1>14 DEF Rollback
<1>15. QED
  BY <1>2, <1>3, <1>4, <1>5, <1>6, <1>7, <1>8, <1>9, <1>10, <1>11, <1>12, <1>13, <1>14
  DEF ClientStep

\* A step on a Goal, a Task, an Action, Evidence or an Outcome keeps the types.
LEMMA WorkTypeStep ==
    ASSUME TypeOK, (\E g \in Goal : GoalStep(g)) \/ WorkStep
    PROVE  TypeOK'
<1>1. ASSUME NEW g \in Goal, GoalStep(g) PROVE TypeOK'
  <2>1. CASE CreateGoal(g)
    BY <2>1 DEF CreateGoal, TypeOK, GoalStatus
  <2>2. CASE ActivateGoal(g)
    BY <2>2 DEF ActivateGoal, TypeOK, GoalStatus
  <2>3. CASE DeadlinePasses(g)
    BY <2>3 DEF DeadlinePasses, TypeOK
  <2>4. CASE SatisfyGoal(g)
    BY <2>4 DEF SatisfyGoal, TypeOK, GoalStatus
  <2>5. QED
    BY <1>1, <2>1, <2>2, <2>3, <2>4 DEF GoalStep
<1>2. ASSUME NEW r \in Run, PrepareRunContext(r) PROVE TypeOK'
  BY <1>2 DEF PrepareRunContext, TypeOK
<1>3. ASSUME NEW t \in Task, StartTask(t) PROVE TypeOK'
  BY <1>3 DEF StartTask, TypeOK, TaskStatus
<1>4. ASSUME NEW t \in Task, NEW s \in {"succeeded", "failed"}, CompleteTask(t, s) PROVE TypeOK'
  BY <1>4 DEF CompleteTask, TypeOK, TaskStatus
<1>5. ASSUME NEW a \in Action, CaptureEvidence(a) PROVE TypeOK'
  BY <1>5 DEF CaptureEvidence, TypeOK
<1>6. ASSUME NEW a \in Action, NEW s \in {"succeeded", "closed"}, SettleAction(a, s)
      PROVE  TypeOK'
  BY <1>6 DEF SettleAction, TypeOK
<1>7. ASSUME NEW r \in Run, NEW k \in Criterion, NEW s \in OutcomeStatus, VerifyOutcome(r, k, s)
      PROVE  TypeOK'
  <2>1. outcome' \in [Run -> [Criterion -> OutcomeStatus \cup {"none"}]]
    BY <1>7 DEF VerifyOutcome, TypeOK
  <2>2. QED
    BY <1>7, <2>1 DEF VerifyOutcome, TypeOK
<1>8. QED
  BY <1>1, <1>2, <1>3, <1>4, <1>5, <1>6, <1>7 DEF WorkStep

LEMMA TypeStep ==
    ASSUME TypeOK, [Next]_vars
    PROVE  TypeOK'
<1>1. CASE Next
  BY <1>1, ClientTypeStep, WorkTypeStep DEF Next
<1>2. CASE UNCHANGED vars
  BY <1>2 DEF vars, rows, TypeOK
<1>3. QED
  BY <1>1, <1>2

\* Every row and open transaction keeps its type, for every Goal, Plan and set of clients.
THEOREM GoalRunTypeCorrect == Spec => []TypeOK
<1>1. Init => TypeOK
  BY DEF Init, TypeOK
<1>2. TypeOK /\ [Next]_vars => TypeOK'
  BY TypeStep
<1>3. QED
  BY <1>1, <1>2, PTL DEF Spec

-----------------------------------------------------------------------------
(* What never goes back.                                                    *)

\* Succeeded Tasks and Actions stay so, Evidence and Outcomes stay.
Monotone ==
    /\ \A t \in Task : task[t] = "succeeded" => task'[t] = "succeeded"
    /\ \A a \in Action : action[a] = "succeeded" => action'[a] = "succeeded"
    /\ captured \subseteq captured'
    /\ \A r \in Run, k \in Criterion : outcome[r][k] # "none" => outcome'[r][k] = outcome[r][k]

\* A transaction that conflicts with nothing: save_run finds the status it has read.
LEMMA SavedMove ==
    ASSUME IInv, NEW c \in Client, SaveRun(c)
    PROVE  /\ tx[c].run \in Run
           /\ <<status[tx[c].run], tx[c].target>> \in RunTransitions
           /\ tx[c].target \in RunStatus \ {"running", "pending"}
<1>1. tx[c].run \in Run /\ tx[c].target \in RunStatus
  BY TxFields DEF IInv, SaveRun, Doing
<1>2. <<tx[c].seen, tx[c].target>> \in RunTransitions /\ tx[c].target # "running"
  BY DEF IInv, ReadsHold, SaveRun
<1>3. tx[c].seen = status[tx[c].run]
  BY DEF SaveRun, RunVersionMatches
<1>4. tx[c].target # "pending"
  BY <1>2 DEF RunTransitions
<1>5. QED
  BY <1>1, <1>2, <1>3, <1>4

\* The Run a Plan is saved for is pending, and has no Tasks yet.
LEMMA SavedPlan ==
    ASSUME IInv, NEW c \in Client, SavePlan(c)
    PROVE  /\ tx[c].run \in Run /\ status[tx[c].run] = "pending"
           /\ \A t \in TasksOf(tx[c].run) : task[t] = "none"
<1>1. tx[c].run \in Run
  BY TxFields DEF IInv, SavePlan, Doing
<1>2. status[tx[c].run] = "pending"
  BY DEF IInv, ReadsHold, SavePlan, RunVersionMatches
<1>3. QED
  BY <1>1, <1>2 DEF IInv, PlanIsFollowed, TasksOf

\* A client's step writes no Evidence and no Outcome, and resets no Task or Action.
LEMMA ClientMonotone ==
    ASSUME IInv, NEW c \in Client, ClientStep(c)
    PROVE  Monotone
<1> USE DEF IInv
<1>1. CASE UNCHANGED <<task, action, captured, outcome>>
  BY <1>1 DEF Monotone
<1>2. CASE SavePlan(c)
  <2>1. ASSUME NEW t \in Task, task[t] = "succeeded" PROVE task'[t] = "succeeded"
    BY <1>2, <2>1, SavedPlan DEF SavePlan, TasksOf
  <2>2. QED
    BY <1>2, <2>1 DEF SavePlan, Monotone
<1>3. CASE AddAction(c)
  <2>1. tx[c].action \in Action
    BY <1>3, TxFields DEF AddAction, Doing
  <2>2. action[tx[c].action] = "none"
    BY <1>3 DEF AddAction, IdsAreFresh
  <2>3. QED
    BY <1>3, <2>1, <2>2 DEF AddAction, Monotone, TypeOK
<1>4. QED
  BY <1>1, <1>2, <1>3 DEF ClientStep, ReadEndedRuns, FailGoal, CountRuns, ReadPendingRun, ReadWork,
       ReadRun, AddRun, ReadOutcomes, SaveRun, ReadRunningTask, Rollback, rows

\* No step takes back what has succeeded or has been recorded.
LEMMA StepMonotone ==
    ASSUME IInv, Next
    PROVE  Monotone
<1> USE DEF IInv
<1>1. CASE UNCHANGED <<task, action, captured, outcome>>
  BY <1>1 DEF Monotone
<1>2. ASSUME NEW t \in Task, StartTask(t) PROVE Monotone
  BY <1>2 DEF StartTask, Monotone, TypeOK
<1>3. ASSUME NEW t \in Task, NEW s \in {"succeeded", "failed"}, CompleteTask(t, s) PROVE Monotone
  BY <1>3 DEF CompleteTask, Monotone, TypeOK
<1>4. ASSUME NEW a \in Action, CaptureEvidence(a) PROVE Monotone
  BY <1>4 DEF CaptureEvidence, Monotone
<1>5. ASSUME NEW a \in Action, NEW s \in {"succeeded", "closed"}, SettleAction(a, s) PROVE Monotone
  BY <1>5 DEF SettleAction, Monotone, TypeOK
<1>6. ASSUME NEW r \in Run, NEW k \in Criterion, NEW s \in OutcomeStatus, VerifyOutcome(r, k, s)
      PROVE  Monotone
  <2>1. ASSUME NEW q \in Run, NEW j \in Criterion, outcome[q][j] # "none"
        PROVE  outcome'[q][j] = outcome[q][j]
    BY <1>6, <2>1 DEF VerifyOutcome, TypeOK
  <2>2. QED
    BY <1>6, <2>1 DEF VerifyOutcome, Monotone
<1>7. QED
  BY <1>1, <1>2, <1>3, <1>4, <1>5, <1>6, ClientMonotone
  DEF Next, GoalStep, WorkStep, CreateGoal, ActivateGoal, DeadlinePasses, SatisfyGoal,
      PrepareRunContext

\* What a step does to the Runs: nothing, a new Run, a Plan, or a move.
LEMMA RunStep ==
    ASSUME Next
    PROVE  UNCHANGED status \/ \E c \in Client : AddRun(c) \/ SavePlan(c) \/ SaveRun(c)
BY DEF Next, GoalStep, WorkStep, ClientStep, CreateGoal, ActivateGoal, DeadlinePasses,
   SatisfyGoal, PrepareRunContext, StartTask, CompleteTask, CaptureEvidence, SettleAction,
   VerifyOutcome, ReadEndedRuns, FailGoal, CountRuns, ReadPendingRun, ReadWork, ReadRun,
   ReadOutcomes, ReadRunningTask, AddAction, Rollback, rows

\* The Run a request adds does not exist yet.
LEMMA AddedRun ==
    ASSUME IInv, NEW c \in Client, AddRun(c)
    PROVE  tx[c].run \in Run /\ status[tx[c].run] = "none"
BY TxFields DEF IInv, AddRun, Doing, IdsAreFresh

\* A Run that exists goes on existing, one that has begun is never pending again, and one that
\* has succeeded stays so.
LEMMA RunNeverBack ==
    ASSUME IInv, Next, NEW r \in Run
    PROVE  /\ status[r] # "none" => status'[r] # "none"
           /\ status[r] \notin {"none", "pending"} => status'[r] \notin {"none", "pending"}
           /\ status[r] = "succeeded" => status'[r] = "succeeded"
<1> USE DEF IInv
<1> DEFINE Claim == /\ status[r] # "none" => status'[r] # "none"
                    /\ status[r] \notin {"none", "pending"} => status'[r] \notin {"none", "pending"}
                    /\ status[r] = "succeeded" => status'[r] = "succeeded"
<1>1. CASE UNCHANGED status
  BY <1>1
<1>2. ASSUME NEW c \in Client, AddRun(c) PROVE Claim
  BY <1>2, AddedRun DEF AddRun, TypeOK
<1>3. ASSUME NEW c \in Client, SavePlan(c) PROVE Claim
  BY <1>3, SavedPlan DEF SavePlan, TypeOK
<1>4. ASSUME NEW c \in Client, SaveRun(c) PROVE Claim
  <2>1. /\ tx[c].run \in Run /\ status' = [status EXCEPT ![tx[c].run] = tx[c].target]
        /\ <<status[tx[c].run], tx[c].target>> \in RunTransitions
        /\ tx[c].target \notin {"none", "pending"}
    BY <1>4, SavedMove DEF SaveRun, RunStatus
  <2>2. status[tx[c].run] # "succeeded"
    BY <2>1 DEF RunTransitions
  <2>3. QED
    BY <2>1, <2>2 DEF TypeOK
<1>5. QED
  BY <1>1, <1>2, <1>3, <1>4, RunStep

-----------------------------------------------------------------------------
(* The inductive invariant.                                                 *)

LEMMA EvidenceStep ==
    ASSUME IInv, Next
    PROVE  EvidenceIsReal' /\ VerdictsAreGrounded'
<1> USE DEF IInv
<1>1. EvidenceIsReal'
  <2>1. ASSUME NEW a \in captured', a \notin captured PROVE action'[a] = "succeeded"
    BY <2>1 DEF Next, GoalStep, WorkStep, ClientStep, CreateGoal, ActivateGoal, DeadlinePasses,
       SatisfyGoal, PrepareRunContext, StartTask, CompleteTask, CaptureEvidence, SettleAction,
       VerifyOutcome, ReadEndedRuns, FailGoal, CountRuns, ReadPendingRun, ReadWork, ReadRun,
       AddRun, SavePlan, SaveRun, ReadOutcomes, ReadRunningTask, AddAction, Rollback, rows
  <2>2. ASSUME NEW a \in captured PROVE action'[a] = "succeeded"
    BY StepMonotone DEF Monotone, EvidenceIsReal, TypeOK
  <2>3. QED
    BY <2>1, <2>2 DEF EvidenceIsReal
<1>2. VerdictsAreGrounded'
  <2>1. SUFFICES ASSUME NEW r \in Run, NEW k \in Criterion,
                        outcome'[r][k] \in {"verified", "not_met"}
                 PROVE  \E a \in captured' : RunOfAction(a) = r
    BY DEF VerdictsAreGrounded, RunOfAction
  <2>2. CASE outcome'[r][k] = outcome[r][k]
    BY <2>1, <2>2, StepMonotone DEF VerdictsAreGrounded, Monotone
  <2>3. CASE outcome'[r][k] # outcome[r][k]
    <3>1. PICK q \in Run, j \in Criterion, s \in OutcomeStatus : VerifyOutcome(q, j, s)
      BY <2>3 DEF Next, GoalStep, WorkStep, ClientStep, CreateGoal, ActivateGoal, DeadlinePasses,
         SatisfyGoal, PrepareRunContext, StartTask, CompleteTask, CaptureEvidence, SettleAction,
         ReadEndedRuns, FailGoal, CountRuns, ReadPendingRun, ReadWork, ReadRun,
         AddRun, SavePlan, SaveRun, ReadOutcomes, ReadRunningTask, AddAction, Rollback, rows
    <3>2. q = r /\ j = k
      BY <2>3, <3>1 DEF VerifyOutcome, TypeOK
    <3>3. outcome'[r][k] = s
      BY <3>1, <3>2 DEF VerifyOutcome, TypeOK
    <3>4. captured \cap ActionsOf(r) # {}
      BY <2>1, <3>1, <3>2, <3>3 DEF VerifyOutcome, Verdicts
    <3>5. QED
      BY <3>1, <3>4 DEF VerifyOutcome, ActionsOf
  <2>4. QED
    BY <2>2, <2>3
<1>3. QED
  BY <1>1, <1>2

LEMMA PlanStep ==
    ASSUME IInv, Next
    PROVE  PlanIsFollowed'
<1> USE DEF IInv
<1>1. SUFFICES ASSUME NEW t \in Task, task'[t] # "none"
               PROVE  /\ status'[RunOf[t]] \notin {"none", "pending"}
                      /\ task'[t] # "pending" => \A d \in DependsOn[t] : task'[d] = "succeeded"
  BY DEF PlanIsFollowed
<1>2. CASE task'[t] = task[t]
  <2>1. status'[RunOf[t]] \notin {"none", "pending"}
    BY <1>1, <1>2, RunNeverBack DEF PlanIsFollowed
  <2>2. ASSUME task[t] # "pending", NEW d \in DependsOn[t] PROVE task'[d] = "succeeded"
    BY <1>1, <1>2, <2>2, StepMonotone DEF PlanIsFollowed, Monotone
  <2>3. QED
    BY <1>2, <2>1, <2>2
<1>3. ASSUME NEW c \in Client, SavePlan(c), task'[t] # task[t]
      PROVE  status'[RunOf[t]] = "running" /\ task'[t] = "pending"
  BY <1>3, SavedPlan DEF SavePlan, TypeOK
<1>4. ASSUME task'[t] # task[t], NEW u \in Task, StartTask(u) \/ \E s \in {"succeeded", "failed"} : CompleteTask(u, s)
      PROVE  /\ status'[RunOf[t]] \notin {"none", "pending"}
             /\ \A d \in DependsOn[t] : task'[d] = "succeeded"
  <2>1. u = t /\ task[t] \in {"pending", "running"} /\ UNCHANGED status
    BY <1>4 DEF StartTask, CompleteTask, TypeOK
  <2>2. status[RunOf[t]] \notin {"none", "pending"}
    BY <2>1 DEF PlanIsFollowed
  <2>3. \A d \in DependsOn[t] : task[d] = "succeeded"
    BY <1>4, <2>1 DEF PlanIsFollowed, StartTask, CompleteTask, DependenciesMet
  <2>4. QED
    BY <2>1, <2>2, <2>3, StepMonotone DEF Monotone
<1>5. CASE task'[t] # task[t]
  <2>1. \/ \E c \in Client : SavePlan(c)
        \/ \E u \in Task : StartTask(u) \/ \E s \in {"succeeded", "failed"} : CompleteTask(u, s)
    BY <1>5 DEF Next, GoalStep, WorkStep, ClientStep, CreateGoal, ActivateGoal, DeadlinePasses,
       SatisfyGoal, PrepareRunContext, CaptureEvidence, SettleAction,
       VerifyOutcome, ReadEndedRuns, FailGoal, CountRuns, ReadPendingRun, ReadWork, ReadRun,
       AddRun, SaveRun, ReadOutcomes, ReadRunningTask, AddAction, Rollback, rows
  <2>2. QED
    BY <1>3, <1>4, <1>5, <2>1
<1>6. QED
  BY <1>2, <1>5

\* Only a client itself opens or closes its transaction.
LEMMA TxOwned ==
    ASSUME IInv, Next, NEW c \in Client, tx'[c] # tx[c]
    PROVE  ClientStep(c)
<1> USE DEF IInv
<1>1. ASSUME NEW d \in Client, d # c, ClientStep(d) PROVE tx'[c] = tx[c]
  <2>1. Close(d) \/ \E t : Open(d, t)
    BY <1>1 DEF ClientStep, ReadEndedRuns, FailGoal, CountRuns, ReadPendingRun, ReadWork, ReadRun,
       AddRun, SavePlan, SaveRun, ReadOutcomes, ReadRunningTask, AddAction, Rollback
  <2>2. QED
    BY <1>1, <2>1 DEF Open, Close, TypeOK
<1>2. PICK d \in Client : ClientStep(d)
  BY DEF Next, GoalStep, WorkStep, CreateGoal, ActivateGoal, DeadlinePasses, SatisfyGoal,
     PrepareRunContext, StartTask, CompleteTask, CaptureEvidence, SettleAction, VerifyOutcome
<1>3. QED
  BY <1>1, <1>2

LEMMA ReadsStep ==
    ASSUME IInv, Next
    PROVE  ReadsHold'
<1> USE DEF IInv
<1> DEFINE Done(r) == \A t \in TasksOf(r) : task[t] = "succeeded"
           DoneNext(r) == \A t \in TasksOf(r) : task'[t] = "succeeded"
           VerifiedNext(r) == \A k \in Criterion : outcome'[r][k] = "verified"
<1>1. ASSUME NEW r \in Run PROVE /\ Done(r) => DoneNext(r)
                                 /\ AllVerified(r) => VerifiedNext(r)
  BY StepMonotone DEF Monotone, TasksOf, AllVerified
<1> DEFINE Claim(c) == /\ Doing(c, "plan")' => tx'[c].seen = "pending"
                       /\ Doing(c, "complete")' =>
                            /\ tx'[c].seen \in {"running", "awaiting_evidence"}
                            /\ DoneNext(tx'[c].run)
                       /\ Doing(c, "move")' =>
                            /\ <<tx'[c].seen, tx'[c].target>> \in RunTransitions
                            /\ tx'[c].target # "running"
                            /\ tx'[c].target = "succeeded" =>
                                 DoneNext(tx'[c].run) /\ VerifiedNext(tx'[c].run)
                       /\ Doing(c, "fail")' => tx'[c].seen = "active"
<1>2. SUFFICES ASSUME NEW c \in Client PROVE Claim(c)
  BY DEF ReadsHold, AllVerified, TasksOf
<1>3. CASE tx'[c] = tx[c]
  <2>1. tx[c] # NoTx /\ tx[c].op \in {"complete", "move"} => tx[c].run \in Run
    BY TxFields
  <2>2. QED
    BY <1>1, <1>3, <2>1 DEF ReadsHold, Doing
<1>4. CASE tx'[c] # tx[c]
  <2>1. ClientStep(c)
    BY <1>4, TxOwned
  <2>2. ASSUME NEW g \in Goal, ReadEndedRuns(c, g) PROVE Claim(c)
    <3>1. tx'[c] = [op |-> "fail", goal |-> g, seen |-> "active"]
      BY <2>2 DEF ReadEndedRuns, Open, TypeOK
    <3>2. QED
      BY <3>1 DEF Doing
  <2>3. ASSUME NEW r \in Run, CountRuns(c, r) PROVE Claim(c)
    <3>1. tx'[c] = [op |-> "request", run |-> r]
      BY <2>3 DEF CountRuns, Open, TypeOK
    <3>2. QED
      BY <3>1 DEF Doing
  <2>4. ASSUME NEW r \in Run, ReadPendingRun(c, r) PROVE Claim(c)
    <3>1. tx'[c] = [op |-> "plan", run |-> r, seen |-> "pending"]
      BY <2>4 DEF ReadPendingRun, Open, TypeOK
    <3>2. QED
      BY <3>1 DEF Doing
  <2>5. ASSUME NEW r \in Run, ReadWork(c, r) PROVE Claim(c)
    <3>1. tx'[c] = [op |-> "complete", run |-> r, seen |-> status[r]]
      BY <2>5 DEF ReadWork, Open, TypeOK
    <3>2. status[r] \in {"running", "awaiting_evidence"} /\ Done(r)
      BY <2>5 DEF ReadWork, WorkFinished
    <3>3. QED
      BY <1>1, <3>1, <3>2 DEF Doing
  <2>6. ASSUME NEW r \in Run, NEW s \in {"cancelled", "failed", "blocked"}, ReadRun(c, r, s)
        PROVE  Claim(c)
    <3>1. /\ tx'[c] = [op |-> "move", run |-> r, seen |-> status[r], target |-> s]
          /\ <<status[r], s>> \in RunTransitions
      BY <2>6 DEF ReadRun, Open, TypeOK
    <3>2. QED
      BY <3>1 DEF Doing
  <2>7. ASSUME NEW a \in Action, ReadRunningTask(c, a) PROVE Claim(c)
    <3>1. tx'[c] = [op |-> "propose", action |-> a]
      BY <2>7 DEF ReadRunningTask, Open, TypeOK
    <3>2. QED
      BY <3>1 DEF Doing
  <2>8. CASE Close(c)
    BY <2>8 DEF Close, Doing, TypeOK
  <2>9. CASE ReadOutcomes(c) /\ ~Close(c)
    <3>1. /\ tx[c].run \in Run /\ tx[c].seen \in {"running", "awaiting_evidence"}
          /\ Done(tx[c].run)
      BY <2>9, TxFields DEF ReadOutcomes, Doing, ReadsHold
    <3>2. /\ tx'[c] = [op |-> "move", run |-> tx[c].run, seen |-> tx[c].seen,
                       target |-> CompletionTarget(tx[c].run)]
          /\ CompletionTarget(tx[c].run) # tx[c].seen
      BY <2>9 DEF ReadOutcomes, Open, TypeOK
    <3>3. /\ CompletionTarget(tx[c].run) \in {"succeeded", "failed", "awaiting_evidence"}
          /\ CompletionTarget(tx[c].run) = "succeeded" => AllVerified(tx[c].run)
      BY DEF CompletionTarget
    <3>4. <<tx[c].seen, CompletionTarget(tx[c].run)>> \in RunTransitions
      BY <3>1, <3>2, <3>3 DEF RunTransitions
    <3>5. QED
      BY <1>1, <3>1, <3>2, <3>3, <3>4 DEF Doing
  <2>10. QED
    BY <2>1, <2>2, <2>3, <2>4, <2>5, <2>6, <2>7, <2>8, <2>9
    DEF ClientStep, FailGoal, AddRun, SavePlan, SaveRun, AddAction, Rollback
<1>5. QED
  BY <1>3, <1>4

\* A request or a proposal that a client opens comes from the read that begins it.
LEMMA Opened ==
    ASSUME TypeOK, NEW c \in Client, ClientStep(c), tx'[c] # NoTx
    PROVE  /\ tx'[c].op = "request" => \E r \in Run : CountRuns(c, r) /\ tx'[c].run = r
           /\ tx'[c].op = "propose" => \E a \in Action : ReadRunningTask(c, a) /\ tx'[c].action = a
<1> DEFINE Claim ==
       /\ tx'[c].op = "request" => \E r \in Run : CountRuns(c, r) /\ tx'[c].run = r
       /\ tx'[c].op = "propose" => \E a \in Action : ReadRunningTask(c, a) /\ tx'[c].action = a
<1>1. ASSUME NEW g \in Goal, ReadEndedRuns(c, g) PROVE Claim
  BY <1>1 DEF ReadEndedRuns, Open, TypeOK
<1>2. ASSUME NEW r \in Run, CountRuns(c, r) PROVE Claim
  <2>1. tx'[c] = [op |-> "request", run |-> r]
    BY <1>2 DEF CountRuns, Open, TypeOK
  <2>2. QED
    BY <1>2, <2>1
<1>3. ASSUME NEW r \in Run, ReadPendingRun(c, r) PROVE Claim
  BY <1>3 DEF ReadPendingRun, Open, TypeOK
<1>4. ASSUME NEW r \in Run, ReadWork(c, r) PROVE Claim
  BY <1>4 DEF ReadWork, Open, TypeOK
<1>5. ASSUME NEW r \in Run, NEW s, ReadRun(c, r, s) PROVE Claim
  BY <1>5 DEF ReadRun, Open, TypeOK
<1>6. ASSUME NEW a \in Action, ReadRunningTask(c, a) PROVE Claim
  <2>1. tx'[c] = [op |-> "propose", action |-> a]
    BY <1>6 DEF ReadRunningTask, Open, TypeOK
  <2>2. QED
    BY <1>6, <2>1
<1>7. CASE Close(c)
  BY <1>7 DEF Close, TypeOK
<1>8. CASE ReadOutcomes(c) /\ ~Close(c)
  BY <1>8 DEF ReadOutcomes, Open, TypeOK
<1>9. QED
  BY <1>1, <1>2, <1>3, <1>4, <1>5, <1>6, <1>7, <1>8
  DEF ClientStep, FailGoal, AddRun, SavePlan, SaveRun, AddAction, Rollback

LEMMA IdsStep ==
    ASSUME IInv, Next
    PROVE  IdsAreFresh'
<1> USE DEF IInv
\* A request or proposal that is open after the step was open before it, or is new.
<1>1. ASSUME NEW c \in Client, Doing(c, "request")'
      PROVE  \/ Doing(c, "request") /\ tx'[c] = tx[c]
             \/ \E r \in Run : CountRuns(c, r) /\ tx'[c].run = r
  <2>1. CASE tx'[c] = tx[c]
    BY <1>1, <2>1 DEF Doing
  <2>2. CASE tx'[c] # tx[c]
    BY <1>1, <2>2, TxOwned, Opened DEF Doing
  <2>3. QED
    BY <2>1, <2>2
<1>2. ASSUME NEW c \in Client, Doing(c, "propose")'
      PROVE  \/ Doing(c, "propose") /\ tx'[c] = tx[c]
             \/ \E a \in Action : ReadRunningTask(c, a) /\ tx'[c].action = a
  <2>1. CASE tx'[c] = tx[c]
    BY <1>2, <2>1 DEF Doing
  <2>2. CASE tx'[c] # tx[c]
    BY <1>2, <2>2, TxOwned, Opened DEF Doing
  <2>3. QED
    BY <2>1, <2>2
<1>3. ASSUME NEW c \in Client, Doing(c, "request")' PROVE status'[tx'[c].run] = "none"
  <2>1. CASE Doing(c, "request") /\ tx'[c] = tx[c]
    <3>1. tx[c].run \in Run /\ status[tx[c].run] = "none"
      BY <2>1, TxFields DEF Doing, IdsAreFresh
    <3>2. ASSUME NEW d \in Client, AddRun(d) PROVE tx[d].run # tx[c].run
      <4>1. d # c
        BY <2>1, <3>2 DEF AddRun, Close, Doing, TypeOK
      <4>2. QED
        BY <2>1, <3>2, <4>1 DEF AddRun, IdsAreFresh
    <3>3. CASE UNCHANGED status
      BY <2>1, <3>1, <3>3
    <3>4. ASSUME NEW d \in Client, AddRun(d) PROVE status'[tx[c].run] = "none"
      BY <3>1, <3>2, <3>4 DEF AddRun, TypeOK
    <3>5. ASSUME NEW d \in Client, SavePlan(d) PROVE status'[tx[c].run] = "none"
      <4>1. tx[d].run \in Run /\ tx[d].run # tx[c].run
        BY <3>1, <3>5, SavedPlan
      <4>2. status' = [status EXCEPT ![tx[d].run] = "running"]
        BY <3>5 DEF SavePlan
      <4>3. QED
        BY <3>1, <4>1, <4>2 DEF TypeOK
    <3>6. ASSUME NEW d \in Client, SaveRun(d) PROVE status'[tx[c].run] = "none"
      <4>1. status[tx[d].run] # "none"
        BY <3>6, SavedMove DEF RunTransitions
      <4>2. QED
        <5>1. status' = [status EXCEPT ![tx[d].run] = tx[d].target]
          BY <3>6 DEF SaveRun
        <5>2. QED
          BY <3>1, <4>1, <5>1 DEF TypeOK
    <3>7. QED
      BY <2>1, <3>3, <3>4, <3>5, <3>6, RunStep
  <2>2. ASSUME NEW r \in Run, CountRuns(c, r), tx'[c].run = r
        PROVE  status'[tx'[c].run] = "none"
    BY <2>2 DEF CountRuns, rows
  <2>3. QED
    BY <1>1, <1>3, <2>1, <2>2
<1>4. ASSUME NEW c \in Client, Doing(c, "propose")' PROVE action'[tx'[c].action] = "none"
  <2>1. CASE Doing(c, "propose") /\ tx'[c] = tx[c]
    <3>1. tx[c].action \in Action /\ action[tx[c].action] = "none"
      BY <2>1, TxFields DEF Doing, IdsAreFresh
    <3>2. ASSUME NEW d \in Client, AddAction(d) PROVE tx[d].action # tx[c].action
      <4>1. d # c
        BY <2>1, <3>2 DEF AddAction, Close, Doing, TypeOK
      <4>2. QED
        BY <2>1, <3>2, <4>1 DEF AddAction, IdsAreFresh
    <3>3. CASE UNCHANGED action
      BY <2>1, <3>1, <3>3
    <3>4. ASSUME NEW d \in Client, AddAction(d) PROVE action'[tx[c].action] = "none"
      BY <3>1, <3>2, <3>4 DEF AddAction, TypeOK
    <3>5. ASSUME NEW a \in Action, NEW s, SettleAction(a, s) PROVE action'[tx[c].action] = "none"
      BY <3>1, <3>5 DEF SettleAction, TypeOK
    <3>6. \/ UNCHANGED action
          \/ \E d \in Client : AddAction(d)
          \/ \E a \in Action, s \in {"succeeded", "closed"} : SettleAction(a, s)
      BY DEF Next, GoalStep, WorkStep, ClientStep, CreateGoal, ActivateGoal, DeadlinePasses,
         SatisfyGoal, PrepareRunContext, StartTask, CompleteTask, CaptureEvidence,
         VerifyOutcome, ReadEndedRuns, FailGoal, CountRuns, ReadPendingRun, ReadWork, ReadRun,
         AddRun, SavePlan, SaveRun, ReadOutcomes, ReadRunningTask, Rollback, rows
    <3>7. QED
      BY <2>1, <3>3, <3>4, <3>5, <3>6
  <2>2. ASSUME NEW a \in Action, ReadRunningTask(c, a), tx'[c].action = a
        PROVE  action'[tx'[c].action] = "none"
    BY <2>2 DEF ReadRunningTask, rows
  <2>3. QED
    BY <1>2, <1>4, <2>1, <2>2
\* Two new transactions cannot begin in one step.
<1>5. ASSUME NEW c \in Client, NEW d \in Client, tx'[c] # tx[c], tx'[d] # tx[d] PROVE c = d
  <2>1. ClientStep(c)
    BY <1>5, TxOwned
  <2>2. QED
    BY <1>5, <2>1 DEF ClientStep, ReadEndedRuns, FailGoal, CountRuns, ReadPendingRun,
       ReadWork, ReadRun, AddRun, SavePlan, SaveRun, ReadOutcomes, ReadRunningTask, AddAction,
       Rollback, Open, Close, TypeOK
<1>6. ASSUME NEW c \in Client, NEW d \in Client, Doing(c, "request")', Doing(d, "request")',
             tx'[d].run = tx'[c].run
      PROVE  d = c
  <2>1. CASE Doing(c, "request") /\ tx'[c] = tx[c] /\ Doing(d, "request") /\ tx'[d] = tx[d]
    BY <1>6, <2>1 DEF IdsAreFresh
  <2>2. ASSUME NEW e \in Client, NEW f \in Client, NEW r \in Run, CountRuns(e, r), r = tx'[f].run,
               Doing(f, "request"), tx'[f] = tx[f]
        PROVE  FALSE
    BY <2>2 DEF CountRuns
  <2>3. CASE tx'[c] # tx[c] /\ tx'[d] # tx[d]
    BY <1>5, <2>3
  <2>4. ASSUME NEW e \in Client, NEW r \in Run, CountRuns(e, r), Doing(e, "request")'
        PROVE  tx'[e] # tx[e]
    BY <2>4 DEF CountRuns, Idle, Doing
  <2>5. QED
    BY <1>1, <1>6, <2>1, <2>2, <2>3, <2>4
<1>7. ASSUME NEW c \in Client, NEW d \in Client, Doing(c, "propose")', Doing(d, "propose")',
             tx'[d].action = tx'[c].action
      PROVE  d = c
  <2>1. CASE Doing(c, "propose") /\ tx'[c] = tx[c] /\ Doing(d, "propose") /\ tx'[d] = tx[d]
    BY <1>7, <2>1 DEF IdsAreFresh
  <2>2. ASSUME NEW e \in Client, NEW f \in Client, NEW a \in Action, ReadRunningTask(e, a),
               a = tx'[f].action, Doing(f, "propose"), tx'[f] = tx[f]
        PROVE  FALSE
    BY <2>2 DEF ReadRunningTask
  <2>3. CASE tx'[c] # tx[c] /\ tx'[d] # tx[d]
    BY <1>5, <2>3
  <2>4. ASSUME NEW e \in Client, NEW a \in Action, ReadRunningTask(e, a), Doing(e, "propose")'
        PROVE  tx'[e] # tx[e]
    BY <2>4 DEF ReadRunningTask, Idle, Doing
  <2>5. QED
    BY <1>2, <1>7, <2>1, <2>2, <2>3, <2>4
<1>8. QED
  BY <1>3, <1>4, <1>6, <1>7 DEF IdsAreFresh

LEMMA SuccessStep ==
    ASSUME IInv, Next
    PROVE  SuccessIsGrounded'
<1> USE DEF IInv
<1> DEFINE Grounded(r) == /\ \A t \in TasksOf(r) : task'[t] = "succeeded"
                          /\ \A k \in Criterion : outcome'[r][k] = "verified"
                          /\ \E a \in captured' : RunOfAction(a) = r /\ action'[a] = "succeeded"
<1>1. SUFFICES ASSUME NEW r \in Run, status'[r] = "succeeded" PROVE Grounded(r)
  BY DEF SuccessIsGrounded, AllVerified, TasksOf, RunOfAction
<1>2. ASSUME \A t \in TasksOf(r) : task[t] = "succeeded", AllVerified(r) PROVE Grounded(r)
  <2>1. /\ \A t \in TasksOf(r) : task'[t] = "succeeded"
        /\ \A k \in Criterion : outcome'[r][k] = "verified"
    BY <1>2, StepMonotone DEF Monotone, TasksOf, AllVerified
  <2>2. PICK k \in Criterion : outcome[r][k] = "verified"
    BY <1>2 DEF AllVerified
  <2>3. PICK a \in captured : RunOfAction(a) = r
    BY <2>2 DEF VerdictsAreGrounded
  <2>4. a \in captured' /\ action'[a] = "succeeded"
    BY <2>3, StepMonotone DEF Monotone, EvidenceIsReal, TypeOK
  <2>5. QED
    BY <2>1, <2>3, <2>4
<1>3. CASE status[r] = "succeeded"
  BY <1>2, <1>3 DEF SuccessIsGrounded
<1>4. CASE status[r] # "succeeded"
  <2>1. ASSUME NEW c \in Client, AddRun(c) PROVE FALSE
    BY <1>1, <1>4, <2>1, AddedRun DEF AddRun, TypeOK
  <2>2. ASSUME NEW c \in Client, SavePlan(c) PROVE FALSE
    BY <1>1, <1>4, <2>2, SavedPlan DEF SavePlan, TypeOK
  <2>3. ASSUME NEW c \in Client, SaveRun(c) PROVE Grounded(r)
    <3>1. tx[c].run = r /\ tx[c].target = "succeeded" /\ Doing(c, "move")
      BY <1>1, <1>4, <2>3, SavedMove DEF SaveRun, TypeOK
    <3>2. (\A t \in TasksOf(r) : task[t] = "succeeded") /\ AllVerified(r)
      BY <3>1 DEF ReadsHold
    <3>3. QED
      BY <1>2, <3>2
  <2>4. QED
    BY <1>1, <1>4, <2>1, <2>2, <2>3, RunStep
<1>5. QED
  BY <1>3, <1>4

LEMMA SatisfactionStep ==
    ASSUME IInv, Next
    PROVE  SatisfactionIsEarned'
<1> USE DEF IInv
<1>1. SUFFICES ASSUME NEW g \in Goal, goal'[g] = "satisfied"
               PROVE  \E r \in RunsOf(g) : status[r] = "succeeded"
  BY RunNeverBack DEF SatisfactionIsEarned, RunsOf
<1>2. CASE goal[g] = "satisfied"
  BY <1>2 DEF SatisfactionIsEarned
<1>3. CASE goal[g] # "satisfied"
  <2>1. ASSUME NEW h \in Goal, GoalStep(h) PROVE \E r \in RunsOf(g) : status[r] = "succeeded"
    BY <1>1, <1>3, <2>1 DEF GoalStep, CreateGoal, ActivateGoal, DeadlinePasses, SatisfyGoal,
       SatisfyingRun, TypeOK
  <2>2. ASSUME NEW c \in Client, FailGoal(c) PROVE FALSE
    BY <1>1, <1>3, <2>2, TxFields DEF FailGoal, Doing, TypeOK
  <2>3. QED
    BY <1>1, <1>3, <2>1, <2>2 DEF Next, WorkStep, ClientStep, PrepareRunContext, StartTask,
       CompleteTask, CaptureEvidence, SettleAction, VerifyOutcome, ReadEndedRuns, CountRuns,
       ReadPendingRun, ReadWork, ReadRun, AddRun, SavePlan, SaveRun, ReadOutcomes,
       ReadRunningTask, AddAction, Rollback, rows
<1>4. QED
  BY <1>2, <1>3

LEMMA IInvStep ==
    ASSUME IInv, [Next]_vars
    PROVE  IInv'
<1>1. CASE Next
  BY <1>1, TypeStep, EvidenceStep, IdsStep, ReadsStep, PlanStep, SuccessStep, SatisfactionStep
  DEF IInv
<1>2. CASE UNCHANGED vars
  <2>1. TypeOK'
    BY TypeStep DEF IInv
  <2>2. EvidenceIsReal' /\ VerdictsAreGrounded' /\ PlanIsFollowed'
    BY <1>2 DEF IInv, EvidenceIsReal, VerdictsAreGrounded, PlanIsFollowed, vars, rows
  <2>3. IdsAreFresh' /\ ReadsHold'
    BY <1>2 DEF IInv, IdsAreFresh, ReadsHold, Doing, AllVerified, vars, rows
  <2>4. SuccessIsGrounded' /\ SatisfactionIsEarned'
    BY <1>2 DEF IInv, SuccessIsGrounded, SatisfactionIsEarned, AllVerified, vars, rows
  <2>5. QED
    BY <2>1, <2>2, <2>3, <2>4 DEF IInv
<1>3. QED
  BY <1>1, <1>2

LEMMA IInvInvariant == Spec => []IInv
<1>1. Init => IInv
  BY DEF Init, IInv, TypeOK, EvidenceIsReal, VerdictsAreGrounded, IdsAreFresh, ReadsHold, Doing,
     PlanIsFollowed, SuccessIsGrounded, SatisfactionIsEarned
<1>2. IInv /\ [Next]_vars => IInv'
  BY IInvStep
<1>3. QED
  BY <1>1, <1>2, PTL DEF Spec

-----------------------------------------------------------------------------
(* Theorems.                                                                *)

\* A succeeded Run has all Tasks done, all criteria verified and Evidence of a succeeded
\* Action, however complete_run interleaves with other use cases.
THEOREM SuccessRestsOnEvidence == Spec => []SuccessIsGrounded
<1>1. IInv => SuccessIsGrounded
  BY DEF IInv
<1>2. QED
  BY <1>1, IInvInvariant, PTL

\* Tasks exist in started Runs only and start after the Tasks they depend on.
THEOREM PlansAreFollowed == Spec => []PlanIsFollowed
<1>1. IInv => PlanIsFollowed
  BY DEF IInv
<1>2. QED
  BY <1>1, IInvInvariant, PTL

\* A satisfied Goal has a succeeded Run.
THEOREM SatisfactionEarned == Spec => []SatisfactionIsEarned
<1>1. IInv => SatisfactionIsEarned
  BY DEF IInv
<1>2. QED
  BY <1>1, IInvInvariant, PTL

\* Runs move along the transition table and a taken-over Run is never completed, whatever
\* transactions race.
THEOREM RunsMoveLegally == Spec => RunMovesLegally
<1> DEFINE Legal == \A r \in Run : status'[r] # status[r] =>
                      /\ status[r] = "none" \/ <<status[r], status'[r]>> \in RunTransitions
                      /\ status[r] = "blocked" => status'[r] \in {"failed", "cancelled"}
<1>1. ASSUME IInv, Next, NEW r \in Run, status'[r] # status[r]
      PROVE  /\ status[r] = "none" \/ <<status[r], status'[r]>> \in RunTransitions
             /\ status[r] = "blocked" => status'[r] \in {"failed", "cancelled"}
  <2> USE DEF IInv
  <2>1. ASSUME NEW c \in Client, AddRun(c) PROVE status[r] = "none"
    BY <1>1, <2>1, AddedRun DEF AddRun, TypeOK
  <2>2. ASSUME NEW c \in Client, SavePlan(c)
        PROVE  status[r] = "pending" /\ <<status[r], status'[r]>> \in RunTransitions
    <3>1. tx[c].run = r /\ status[r] = "pending" /\ status'[r] = "running"
      BY <1>1, <2>2, SavedPlan DEF SavePlan, TypeOK
    <3>2. QED
      BY <3>1 DEF RunTransitions
  <2>3. ASSUME NEW c \in Client, SaveRun(c)
        PROVE  /\ <<status[r], status'[r]>> \in RunTransitions
               /\ status[r] = "blocked" => status'[r] \in {"failed", "cancelled"}
    <3>1. status'[r] = tx[c].target /\ tx[c].run = r
      BY <1>1, <2>3, SavedMove DEF SaveRun, TypeOK
    <3>2. <<status[r], status'[r]>> \in RunTransitions /\ status'[r] # "running"
      BY <1>1, <2>3, <3>1, SavedMove
    <3>3. QED
      BY <3>2 DEF RunTransitions
  <2>4. QED
    BY <1>1, <2>1, <2>2, <2>3, RunStep
<1>2. IInv /\ [Next]_vars => [Legal]_vars
  BY <1>1
<1>3. QED
  BY <1>2, IInvInvariant, PTL DEF Spec, RunMovesLegally

\* A Goal is decided once, also when its failure and its satisfaction race.
THEOREM GoalsDecidedOnce == Spec => GoalDecidedOnce
<1> DEFINE Kept == \A g \in Goal : goal[g] \in {"satisfied", "failed"} => goal'[g] = goal[g]
<1>1. ASSUME IInv, Next PROVE Kept
  <2> USE DEF IInv
  <2>1. CASE UNCHANGED goal
    BY <2>1
  <2>2. ASSUME NEW h \in Goal, GoalStep(h) PROVE Kept
    BY <1>1, <2>2 DEF GoalStep, CreateGoal, ActivateGoal, DeadlinePasses, SatisfyGoal, TypeOK
  <2>3. ASSUME NEW c \in Client, FailGoal(c) PROVE Kept
    <3>1. tx[c].goal \in Goal /\ goal[tx[c].goal] = "active"
      BY <1>1, <2>3, TxFields DEF FailGoal, Doing, GoalVersionMatches, ReadsHold
    <3>2. QED
      BY <1>1, <2>3, <3>1 DEF FailGoal, TypeOK
  <2>4. QED
    BY <1>1, <2>1, <2>2, <2>3 DEF Next, WorkStep, ClientStep, PrepareRunContext, StartTask,
       CompleteTask, CaptureEvidence, SettleAction, VerifyOutcome, ReadEndedRuns, CountRuns,
       ReadPendingRun, ReadWork, ReadRun, AddRun, SavePlan, SaveRun, ReadOutcomes,
       ReadRunningTask, AddAction, Rollback, rows
<1>2. IInv /\ [Next]_vars => [Kept]_vars
  BY <1>1
<1>3. QED
  BY <1>2, IInvInvariant, PTL DEF Spec, GoalDecidedOnce
=============================================================================
