----------------------- MODULE GoalRunWorkflow_proofs -----------------------
(***************************************************************************)
(* Proofs about the workflow of a Run: types, the approval of risky Runs,  *)
(* agreement of the result with the rows, control before evaluation; then  *)
(* about the packs that define its goal type: only trusted ones are used.  *)
(***************************************************************************)
EXTENDS GoalRunWorkflow, PackCatalog, TLAPS

\* The rows and the command, and the control state of the workflow.
RowsOK ==
    /\ status \in RunStatus /\ planned \in BOOLEAN /\ work \in Work
    /\ goal \in {"active", "satisfied", "failed"}
    /\ approval \in [Approval -> ApprovalStatus]
    /\ expired \in BOOLEAN

ControlOK ==
    /\ risky \in BOOLEAN /\ requires \in BOOLEAN /\ count \in 0..MaxContinuations
    /\ pc \in Pcs /\ after \in Continuations \cup {"none"} /\ left \in 0..3
    /\ result \in Results \cup {"none", "error"}
    /\ approvalId \in Approval \cup {NoApproval}
    /\ cancel \in BOOLEAN /\ takeover \in BOOLEAN /\ paused \in BOOLEAN /\ resumed \in BOOLEAN
    /\ looked \in Approval \cup {NoApproval}
    /\ signals \in 0..MaxSignals

LEMMA TypeParts == TypeOK <=> ControlOK /\ RowsOK
BY DEF TypeOK, ControlOK, RowsOK

LEMMA EnterType ==
    ASSUME NEW p \in Pcs, Enter(p), ControlOK
    PROVE  pc' \in Pcs /\ left' \in 0..3 /\ result' \in Results \cup {"none", "error"}
BY DEF Enter, Attempts, ControlOK

LEMMA ProceedType ==
    ASSUME ControlOK, NEW k, Proceed(k), UNCHANGED signals
    PROVE  ControlOK'
<1> USE DEF Pcs, Waits, Activities
<1>1. PICK p \in Pcs : Enter(p)
  BY DEF Proceed
<1>2. pc' \in Pcs /\ left' \in 0..3 /\ result' \in Results \cup {"none", "error"}
  BY <1>1, EnterType
<1>3. count' \in 0..MaxContinuations
  BY WorkflowAssumption DEF Proceed, MayContinue, ControlOK
<1>4. QED
  BY <1>2, <1>3 DEF Proceed, ControlOK, Continuations

LEMMA ControlledType ==
    ASSUME ControlOK, NEW k \in Continuations, Controlled(k), UNCHANGED signals
    PROVE  ControlOK'
<1>1. CASE cancel \/ takeover
  <2>1. PICK p \in {"cancelling", "taking_over"} : Enter(p)
    BY <1>1 DEF Controlled
  <2>2. pc' \in Pcs /\ left' \in 0..3 /\ result' \in Results \cup {"none", "error"}
    BY <2>1, EnterType DEF Pcs, Activities
  <2>3. QED
    BY <1>1, <2>2 DEF Controlled, ControlOK, command, control
<1>2. CASE ~cancel /\ ~takeover /\ paused
  <2>1. pc' \in Pcs /\ left' \in 0..3 /\ result' \in Results \cup {"none", "error"}
    BY <1>2, EnterType DEF Controlled, Pcs, Waits
  <2>2. QED
    BY <1>2, <2>1 DEF Controlled, ControlOK, command, control
<1>3. CASE ~cancel /\ ~takeover /\ ~paused
  BY <1>3, ProceedType DEF Controlled
<1>4. QED
  BY <1>1, <1>2, <1>3

\* A commit keeps the rows well typed.
LEMMA CommitsType ==
    ASSUME RowsOK, Commits, UNCHANGED <<approval, expired>>
    PROVE  RowsOK'
BY DEF RowsOK, Commits, Completed, Dispatched, RunStatus, Work

LEMMA WorkflowType ==
    ASSUME TypeOK, Workflow
    PROVE  ControlOK' /\ RowsOK'
<1> USE TypeParts
<1>1. CASE Begin
  <2>1. RowsOK' /\ UNCHANGED signals
    BY <1>1 DEF Begin, rows, RowsOK
  <2>2. CASE count = 0
    <3>1. Enter("planning") /\ UNCHANGED <<command, after, control, looked>>
      BY <1>1, <2>2 DEF Begin
    <3>2. pc' \in Pcs /\ left' \in 0..3 /\ result' \in Results \cup {"none", "error"}
      BY <3>1, EnterType DEF Pcs, Activities
    <3>3. QED
      BY <2>1, <3>1, <3>2 DEF ControlOK, command, control
  <2>3. CASE count # 0
    BY <1>1, <2>1, <2>3, ControlledType DEF Begin, Continuations
  <2>4. QED
    BY <2>2, <2>3
<1>2. CASE Wake
  <2>1. RowsOK' /\ UNCHANGED signals
    BY <1>2 DEF Wake, rows, RowsOK
  <2>2. CASE pc = "awaiting_approval"
    BY <1>2, <2>1, <2>2, ControlledType DEF Wake, Continuations
  <2>3. CASE pc = "waiting"
    BY <1>2, <2>1, <2>3, ControlledType DEF Wake, Continuations
  <2>4. CASE pc = "paused"
    <3>1. Controlled(after)
      BY <1>2, <2>4 DEF Wake
    <3>2. CASE after \in Continuations
      BY <2>1, <3>1, <3>2, ControlledType
    <3>3. CASE after = "none"
      <4>1. CASE cancel \/ takeover
        <5>1. \E k \in Continuations : Controlled(k)
          BY <3>1, <4>1 DEF Controlled, Continuations
        <5>2. QED
          BY <2>1, <5>1, ControlledType
      <4>2. CASE ~cancel /\ ~takeover
        <5>1. ~paused
          BY <1>2, <2>4, <4>2 DEF Wake, Woken
        <5>2. QED
          BY <3>1, <3>3, <4>2, <5>1 DEF Controlled, Proceed
      <4>3. QED
        BY <4>1, <4>2
    <3>4. QED
      BY <3>2, <3>3 DEF ControlOK
  <2>5. QED
    BY <1>2, <2>2, <2>3, <2>4 DEF Wake, Woken
<1>3. CASE RetryAssertion
  BY <1>3, ControlledType DEF RetryAssertion, Continuations, rows, RowsOK
<1>4. CASE Expire
  <2>1. pc' \in Pcs /\ left' \in 0..3 /\ result' \in Results \cup {"none", "error"}
    BY <1>4, EnterType DEF Expire, Pcs, Activities
  <2>2. QED
    BY <1>4, <2>1 DEF Expire, ControlOK, RowsOK, rows, command, control
<1>5. CASE Return
  <2>1. RowsOK' /\ UNCHANGED signals
    BY <1>5, CommitsType DEF Return
  <2>2. CASE Controlled("begin") \/ Controlled("evaluate")
    BY <2>1, <2>2, ControlledType DEF Continuations
  <2>3. CASE pc = "evaluating" /\ AfterEvaluation /\ UNCHANGED <<command, after, looked>>
    <3>1. CASE Enter("waiting")
      <4>1. pc' \in Pcs /\ left' \in 0..3 /\ result' \in Results \cup {"none", "error"}
        BY <3>1, EnterType DEF Pcs, Waits
      <4>2. QED
        BY <2>1, <2>3, <4>1 DEF AfterEvaluation, ControlOK, command, control
    <3>2. CASE ~Enter("waiting")
      <4>1. pc' \in {"satisfying", "closed"} /\ left' \in {left, 0}
            /\ result' \in {result, "failed", "cancelled"} /\ UNCHANGED control
        BY <2>3, <3>2 DEF AfterEvaluation, Close
      <4>2. QED
        BY <2>1, <2>3, <4>1 DEF ControlOK, command, control, Pcs, Activities, Results
    <3>3. QED
      BY <3>1, <3>2
  <2>4. CASE /\ pc \in {"satisfying", "cancelling", "rejecting", "taking_over"}
             /\ \E r \in Results : Close(r)
             /\ UNCHANGED <<command, after, control, looked>>
    BY <2>1, <2>4 DEF Close, ControlOK, command, control, Pcs
  <2>5. QED
    BY <1>5, <2>2, <2>3, <2>4 DEF Return, AfterExecution, Results
<1>6. CASE LoadReturns
  <2>1. PICK p \in {"executing", "rejecting", "awaiting_approval"} : Enter(p)
    BY <1>6 DEF LoadReturns
  <2>2. pc' \in Pcs /\ left' \in 0..3 /\ result' \in Results \cup {"none", "error"}
    BY <2>1, EnterType DEF Pcs, Activities, Waits
  <2>3. QED
    BY <1>6, <2>2 DEF LoadReturns, ControlOK, RowsOK, rows, command, control
<1>7. CASE Fail
  <2>1. RowsOK'
    BY <1>7, CommitsType DEF Fail, RowsOK
  <2>2. pc' \in Pcs /\ left' \in 0..3 /\ result' \in Results \cup {"none", "error"}
        /\ looked' \in Approval \cup {NoApproval}
    BY <1>7 DEF Fail, Close, ControlOK, Pcs, Activities
  <2>3. QED
    BY <1>7, <2>1, <2>2 DEF Fail, ControlOK, command, control
<1>8. QED
  BY <1>1, <1>2, <1>3, <1>4, <1>5, <1>6, <1>7 DEF Workflow

LEMMA SignalType ==
    ASSUME TypeOK, Signal
    PROVE  ControlOK' /\ RowsOK'
<1> USE TypeParts
<1>1. Sent
  BY DEF Signal, ApprovalDecided, CancelSignal, PauseSignal, ResumeSignal, TakeOverSignal
<1>2. RowsOK'
  BY <1>1 DEF Sent, rows, RowsOK
<1>3. signals' \in 0..MaxSignals
  BY <1>1, WorkflowAssumption DEF Sent, ControlOK
<1>4. /\ approvalId' \in Approval \cup {NoApproval} /\ cancel' \in BOOLEAN
      /\ takeover' \in BOOLEAN /\ paused' \in BOOLEAN /\ resumed' \in BOOLEAN
  BY DEF Signal, ApprovalDecided, CancelSignal, PauseSignal, ResumeSignal, TakeOverSignal, ControlOK
<1>5. QED
  BY <1>1, <1>2, <1>3, <1>4 DEF Sent, ControlOK, command

LEMMA SurroundingsType ==
    ASSUME TypeOK, Surroundings
    PROVE  ControlOK' /\ RowsOK'
<1> USE TypeParts
<1>1. ControlOK'
  BY DEF Surroundings, OperatorMoves, OperatorFailsGoal, WorkProgresses, ApprovalMoves,
         DeadlinePasses, Watched, Surrounds, ControlOK, command, control
<1>2. ASSUME NEW t \in {"cancelled", "blocked"}, OperatorMoves(t) PROVE RowsOK'
  BY <1>2 DEF OperatorMoves, RowsOK, RunStatus
<1>3. CASE OperatorFailsGoal
  BY <1>1, <1>3 DEF OperatorFailsGoal, RowsOK
<1>4. ASSUME NEW w \in Work, WorkProgresses(w) PROVE RowsOK'
  BY <1>4 DEF WorkProgresses, RowsOK
<1>5. ASSUME NEW a \in Own, NEW t \in ApprovalStatus, ApprovalMoves(a, t) PROVE RowsOK'
  BY <1>5 DEF ApprovalMoves, RowsOK
<1>6. CASE DeadlinePasses
  BY <1>1, <1>6 DEF DeadlinePasses, RowsOK, rows
<1>7. QED
  BY <1>1, <1>2, <1>3, <1>4, <1>5, <1>6 DEF Surroundings

LEMMA InitType == Init => TypeOK
<1> SUFFICES ASSUME Init PROVE TypeOK
  OBVIOUS
<1>1. RowsOK
  BY DEF Init, RowsOK, RunStatus, Work, ApprovalStatus
<1>2. count \in 0..MaxContinuations /\ signals \in 0..MaxSignals /\ left \in 0..3
  BY WorkflowAssumption DEF Init
<1>3. ControlOK
  BY <1>2 DEF Init, ControlOK, Pcs
<1>4. QED
  BY <1>1, <1>3, TypeParts

LEMMA TypeStep == TypeOK /\ [Next]_vars => TypeOK'
<1> SUFFICES ASSUME TypeOK, [Next]_vars PROVE TypeOK'
  OBVIOUS
<1>1. CASE Next
  BY <1>1, WorkflowType, SignalType, SurroundingsType DEF Next, TypeOK, ControlOK, RowsOK
<1>2. CASE UNCHANGED vars
  BY <1>2 DEF vars, TypeOK, command, control, rows
<1>3. QED
  BY <1>1, <1>2

\* The control state and the rows of the workflow keep their types and limits.
THEOREM WorkflowTypeCorrect == Spec => []TypeOK
BY InitType, TypeStep, PTL DEF Spec

-----------------------------------------------------------------------------
(* Approval of risky Runs.                                                  *)

Approved == \E a \in Own : approval[a] = "approved"

\* The workflow is past the approval: it stands beyond it, is paused beyond it, or is a
\* later execution.
Past == \/ pc \in {"executing", "evaluating", "satisfying", "waiting"}
        \/ after \in {"evaluate", "continue"}
        \/ count > 0

\* A risky Run past the approval is approved; before it, its command still asks for one.
ApprovalInv ==
    risky => /\ Past => Approved
             /\ count = 0 => requires

LEMMA ApprovedStays ==
    ASSUME TypeOK, Next, Approved
    PROVE  Approved'
<1>1. PICK a \in Own : approval[a] = "approved"
  BY DEF Approved
<1>2. UNCHANGED approval \/ \E b \in Own, t \in ApprovalStatus : ApprovalMoves(b, t)
  BY DEF Next, Workflow, Begin, Wake, RetryAssertion, Expire, Return, LoadReturns, Fail, Signal,
         ApprovalDecided, CancelSignal, PauseSignal, ResumeSignal, TakeOverSignal, Sent,
         Surroundings, OperatorMoves, OperatorFailsGoal, WorkProgresses, DeadlinePasses, rows
<1>3. approval'[a] = "approved"
  BY <1>1, <1>2, WorkflowAssumption DEF ApprovalMoves, TypeOK
<1>4. QED
  BY <1>3 DEF Approved

\* Control leads past the approval only from beyond it, or where none is asked for.
LEMMA ControlledPast ==
    ASSUME TypeOK, ApprovalInv, risky, ~Approved, NEW k, Controlled(k),
           k \in {"begin", "approval"}, UNCHANGED approval
    PROVE  ~Past' /\ count' = 0 /\ requires'
<1>1. count = 0 /\ requires /\ after \notin {"evaluate", "continue"}
  BY DEF ApprovalInv, Past, TypeOK
<1>2. UNCHANGED <<requires, count>>
  BY DEF Controlled, Proceed, command
<1>3. after' \in {"none", "begin", "approval"}
  BY DEF Controlled, Proceed
<1>4. pc' \notin {"executing", "evaluating", "satisfying", "waiting"}
  BY <1>1 DEF Controlled, Proceed, Enter
<1>5. QED
  BY <1>1, <1>2, <1>3, <1>4 DEF Past

LEMMA ApprovalStep ==
    ASSUME TypeOK, ApprovalInv, Next
    PROVE  ApprovalInv'
<1>1. UNCHANGED risky
  BY DEF Next, Workflow, Begin, Wake, RetryAssertion, Expire, Return, LoadReturns, Fail, Signal,
         ApprovalDecided, CancelSignal, PauseSignal, ResumeSignal, TakeOverSignal, Sent,
         Surroundings, OperatorMoves, OperatorFailsGoal, WorkProgresses, ApprovalMoves,
         DeadlinePasses, Watched, Surrounds, command, Controlled, Proceed, AfterExecution
<1>2. CASE ~risky
  BY <1>1, <1>2 DEF ApprovalInv
<1>3. CASE risky /\ Approved
  <2>1. UNCHANGED <<requires, count>> \/ count' = count + 1
    BY DEF Next, Workflow, Begin, Wake, RetryAssertion, Expire, Return,
         LoadReturns, Fail, Signal, ApprovalDecided, CancelSignal, PauseSignal, ResumeSignal,
         TakeOverSignal, Sent, Surroundings, OperatorMoves, OperatorFailsGoal, WorkProgresses,
         ApprovalMoves, DeadlinePasses, Watched, Surrounds, command, Controlled, Proceed,
         AfterExecution
  <2>2. QED
    BY <1>3, <2>1, ApprovedStays DEF ApprovalInv, TypeOK
<1>4. CASE risky /\ ~Approved
  <2> USE <1>1, <1>4
  <2>1. /\ count = 0 /\ requires /\ after \notin {"evaluate", "continue"}
        /\ pc \notin {"executing", "evaluating", "satisfying", "waiting"}
    BY DEF ApprovalInv, Past, TypeOK
  <2>2. CASE Begin
    BY <2>1, <2>2 DEF Begin, Enter, ApprovalInv, Past, command
  <2>3. CASE Wake \/ RetryAssertion
    <3>1. PICK k : k \in {"begin", "approval", "none"} /\ Controlled(k) /\ UNCHANGED approval
      BY <2>1, <2>3 DEF Wake, RetryAssertion, rows, TypeOK, Continuations
    <3>2. CASE k = "none"
      <4>1. UNCHANGED <<requires, count>> /\ after' = "none"
            /\ pc' \in {"cancelling", "taking_over", "paused"}
        BY <3>1, <3>2 DEF Controlled, Proceed, Enter, command
      <4>2. QED
        BY <2>1, <4>1 DEF ApprovalInv, Past
    <3>3. CASE k \in {"begin", "approval"}
      BY <3>1, <3>3, ControlledPast DEF ApprovalInv
    <3>4. QED
      BY <3>1, <3>2, <3>3
  <2>4. CASE Expire
    BY <2>1, <2>4 DEF Expire, Enter, ApprovalInv, Past, command
  <2>5. CASE Return
    <3>1. CASE pc = "planning"
      BY <2>5, <3>1, ControlledPast DEF Return, ApprovalInv
    <3>2. CASE pc # "planning"
      <4>1. pc' = "closed" /\ UNCHANGED <<command, after>>
        BY <2>1, <2>5, <3>2 DEF Return, Close
      <4>2. QED
        BY <2>1, <4>1 DEF ApprovalInv, Past, command
    <3>3. QED
      BY <3>1, <3>2
  <2>6. CASE LoadReturns
    <3>1. looked \in Own /\ approval[looked] # "approved"
      BY <2>6 DEF LoadReturns, Bound, Approved
    <3>2. pc' \in {"rejecting", "awaiting_approval"} /\ UNCHANGED <<command, after>>
      BY <2>6, <3>1 DEF LoadReturns, Enter
    <3>3. QED
      BY <2>1, <3>2 DEF ApprovalInv, Past, command
  <2>7. CASE Fail
    <3>1. pc' \in {pc, "closed"} /\ UNCHANGED <<command, after>>
      BY <2>1, <2>7 DEF Fail, Close
    <3>2. QED
      BY <2>1, <3>1 DEF ApprovalInv, Past, command
  <2>8. CASE Signal \/ Surroundings
    <3>1. UNCHANGED <<pc, command, after>>
      BY <2>8 DEF Signal, ApprovalDecided, CancelSignal, PauseSignal, ResumeSignal,
         TakeOverSignal, Sent, Surroundings, OperatorMoves, OperatorFailsGoal, WorkProgresses,
         ApprovalMoves, DeadlinePasses, Watched, Surrounds
    <3>2. QED
      BY <2>1, <3>1 DEF ApprovalInv, Past, command
  <2>9. QED
    BY <2>2, <2>3, <2>4, <2>5, <2>6, <2>7, <2>8 DEF Next, Workflow
<1>5. QED
  BY <1>2, <1>3, <1>4 DEF TypeOK

\* A Run whose risk asks for an approval is executed, evaluated and continued only with an
\* approved approval of its own, whatever IDs are signalled and however often it is paused.
THEOREM ExecutionIsApproved == Spec => []ApprovedBeforeExecution
<1>1. Init => ApprovalInv
  BY DEF Init, ApprovalInv, Past
<1>2. TypeOK /\ ApprovalInv /\ [Next]_vars => ApprovalInv'
  <2>1. ASSUME UNCHANGED vars, ApprovalInv PROVE ApprovalInv'
    BY <2>1 DEF vars, ApprovalInv, Past, Approved, command, rows
  <2>2. QED
    BY <2>1, ApprovalStep
<1>3. ApprovalInv => ApprovedBeforeExecution
  BY DEF ApprovalInv, Past, Approved, ApprovedBeforeExecution
<1>4. QED
  BY <1>1, <1>2, <1>3, WorkflowTypeCorrect, PTL DEF Spec

-----------------------------------------------------------------------------
(* Agreement of the result with the rows.                                   *)

\* An open workflow has no result, and the Goal is satisfied for a succeeded Run only.
ResultInv ==
    /\ pc # "closed" => result = "none"
    /\ pc = "satisfying" => status = "succeeded"
    /\ ResultMatchesRun

LEMMA OpenResult ==
    ASSUME result' = "none", pc' # "satisfying"
    PROVE  ResultInv'
BY DEF ResultInv, ResultMatchesRun

\* Control neither ends the workflow nor satisfies the Goal.
LEMMA ControlledOpen ==
    ASSUME NEW k, Controlled(k)
    PROVE  pc' \notin {"closed", "satisfying"} /\ UNCHANGED result
BY DEF Controlled, Proceed, Enter

\* What commits when the workflow ends is what it returns.
LEMMA ResultReturn ==
    ASSUME TypeOK, ResultInv, Return
    PROVE  ResultInv'
<1>1. CASE pc = "planning" \/ pc = "executing"
  <2>1. result = "none" /\ \E k \in {"begin", "evaluate"} : Controlled(k)
    BY <1>1 DEF Return, AfterExecution, ResultInv
  <2>2. QED
    BY <2>1, ControlledOpen, OpenResult
<1>2. CASE pc = "evaluating"
  <2>1. AfterEvaluation /\ result = "none"
    BY <1>2 DEF Return, ResultInv
  <2>2. CASE status' = "succeeded"
    BY <2>1, <2>2 DEF AfterEvaluation, Close, Enter, ResultInv, ResultMatchesRun, RunTerminal
  <2>3. CASE status' \in {"failed", "cancelled"}
    BY <2>1, <2>3 DEF AfterEvaluation, Close, Enter, ResultInv, ResultMatchesRun, RunTerminal
  <2>4. CASE status' \notin RunTerminal
    BY <2>1, <2>4, OpenResult DEF AfterEvaluation, Enter, RunTerminal
  <2>5. QED
    BY <2>2, <2>3, <2>4 DEF RunTerminal
<1>3. CASE pc = "satisfying"
  <2>1. status' = "succeeded" /\ goal' # "active" /\ Close("succeeded")
    BY <1>3 DEF Return, Commits, ResultInv
  <2>2. QED
    BY <2>1 DEF Close, ResultInv, ResultMatchesRun
<1>4. CASE pc = "cancelling"
  <2>1. status' = "cancelled" /\ Close("cancelled")
    BY <1>4 DEF Return, Commits
  <2>2. QED
    BY <2>1 DEF Close, ResultInv, ResultMatchesRun
<1>5. CASE pc = "rejecting"
  <2>1. status' = "failed" /\ Close("rejected")
    BY <1>5 DEF Return, Commits
  <2>2. QED
    BY <2>1 DEF Close, ResultInv, ResultMatchesRun
<1>6. CASE pc = "taking_over"
  <2>1. status' = "blocked" /\ Close("taken_over")
    BY <1>6 DEF Return, Commits, TakeoverPersisted
  <2>2. QED
    BY <2>1 DEF Close, ResultInv, ResultMatchesRun
<1>7. QED
  BY <1>1, <1>2, <1>3, <1>4, <1>5, <1>6 DEF Return

\* Nobody moves a Run out of the status its workflow ended with, except a takeover's.
LEMMA ResultSurroundings ==
    ASSUME TypeOK, ResultInv, Surroundings
    PROVE  ResultInv'
<1>1. UNCHANGED <<pc, result>>
  BY DEF Surroundings, OperatorMoves, OperatorFailsGoal, WorkProgresses, ApprovalMoves,
         DeadlinePasses, Watched, Surrounds
<1>2. \/ UNCHANGED <<status, goal>>
      \/ UNCHANGED status /\ goal' = "failed"
      \/ UNCHANGED goal /\ \E t \in {"cancelled", "blocked"} :
                             <<status, t>> \in RunTransitions /\ status' = t
  BY DEF Surroundings, OperatorMoves, OperatorFailsGoal, WorkProgresses, ApprovalMoves,
         DeadlinePasses, rows
<1>3. ASSUME NEW t \in {"cancelled", "blocked"}, <<status, t>> \in RunTransitions
      PROVE  status \notin RunTerminal /\ (status = "blocked" => t = "cancelled")
  BY <1>3 DEF RunTransitions, RunTerminal
<1>4. QED
  BY <1>1, <1>2, <1>3 DEF ResultInv, ResultMatchesRun, RunTerminal

LEMMA ResultStep ==
    ASSUME TypeOK, ResultInv, Next
    PROVE  ResultInv'
<1>1. CASE Begin \/ Wake \/ RetryAssertion
  <2>1. pc # "closed"
    BY <1>1 DEF Begin, Wake, Woken, RetryAssertion
  <2>2. Enter("planning") \/ \E k \in Continuations \cup {"none"} : Controlled(k)
    BY <1>1 DEF Begin, Wake, RetryAssertion, Continuations, TypeOK
  <2>3. pc' \notin {"closed", "satisfying"} /\ UNCHANGED result
    BY <2>2, ControlledOpen DEF Enter
  <2>4. QED
    BY <2>1, <2>3, OpenResult DEF ResultInv
<1>2. CASE Expire
  BY <1>2, OpenResult DEF Expire, DeadlineWaits, Enter, ResultInv
<1>3. CASE LoadReturns
  BY <1>3, OpenResult DEF LoadReturns, Enter, ResultInv
<1>4. CASE Return
  BY <1>4, ResultReturn
<1>5. CASE Fail
  <2>1. result = "none" /\ pc' # "satisfying" /\ result' \in {"none", "error"}
        /\ (pc' # "closed" => result' = "none")
    BY <1>5 DEF Fail, Close, Activities, ResultInv
  <2>2. QED
    BY <2>1 DEF ResultInv, ResultMatchesRun
<1>6. CASE Signal
  <2>1. UNCHANGED <<pc, result, status, goal>>
    BY <1>6 DEF Signal, ApprovalDecided, CancelSignal, PauseSignal, ResumeSignal,
         TakeOverSignal, Sent, rows
  <2>2. QED
    BY <2>1 DEF ResultInv, ResultMatchesRun
<1>7. CASE Surroundings
  BY <1>7, ResultSurroundings
<1>8. QED
  BY <1>1, <1>2, <1>3, <1>4, <1>5, <1>6, <1>7 DEF Next, Workflow

\* The result of the workflow agrees with the rows of the Run and the Goal for ever, with
\* repeated attempts, lost answers and operators who move the rows.
THEOREM ResultIsRecorded == Spec => []ResultMatchesRun
<1>1. Init => ResultInv
  BY DEF Init, ResultInv, ResultMatchesRun
<1>2. TypeOK /\ ResultInv /\ [Next]_vars => ResultInv'
  <2>1. ASSUME UNCHANGED vars, ResultInv PROVE ResultInv'
    BY <2>1 DEF vars, ResultInv, ResultMatchesRun, rows
  <2>2. QED
    BY <2>1, ResultStep
<1>3. ResultInv => ResultMatchesRun
  BY DEF ResultInv
<1>4. QED
  BY <1>1, <1>2, <1>3, WorkflowTypeCorrect, PTL DEF Spec

-----------------------------------------------------------------------------
(* Control before evaluation.                                               *)

\* Every step from execution to evaluation has found no cancellation, takeover or pause.
THEOREM ControlPrecedesEvaluation == Spec => ControlBeforeEvaluation
<1>1. ASSUME Next, pc = "executing", pc' = "evaluating"
      PROVE  ~cancel /\ ~takeover /\ ~paused
  <2>1. Return
    <3>1. ~Signal /\ ~Surroundings
      BY <1>1 DEF Signal, ApprovalDecided, CancelSignal, PauseSignal, ResumeSignal,
         TakeOverSignal, Sent, Surroundings, OperatorMoves, OperatorFailsGoal, WorkProgresses,
         ApprovalMoves, DeadlinePasses, Watched, Surrounds
    <3>2. ~Begin /\ ~Wake /\ ~RetryAssertion /\ ~Expire /\ ~LoadReturns
      BY <1>1 DEF Begin, Wake, Woken, RetryAssertion, Expire, DeadlineWaits, LoadReturns
    <3>3. ~Fail
      BY <1>1 DEF Fail, Close
    <3>4. QED
      BY <1>1, <3>1, <3>2, <3>3 DEF Next, Workflow
  <2>2. Controlled("evaluate")
    BY <1>1, <2>1 DEF Return, AfterExecution
  <2>3. QED
    BY <1>1, <2>2 DEF Controlled, Enter
<1>2. [Next]_vars => [pc = "executing" /\ pc' = "evaluating" => ~cancel /\ ~takeover /\ ~paused]_vars
  BY <1>1
<1>3. QED
  BY <1>2, PTL DEF Spec, ControlBeforeEvaluation

-----------------------------------------------------------------------------
(***************************************************************************)
(* PackCatalog: the packs that define the goal types of these Runs.        *)
(***************************************************************************)
USE CatalogAssumption

\* A stored pack is filed under its own release and passed the supply-chain check.
RowsHold ==
    \A r \in Release : Installed(r) =>
        ReleaseOf(row[r].manifest) = r /\ row[r].manifest \in Verified

\* A call that installs carries a manifest it has verified, one that enables or pins a release
\* that was there when it looked, and rows do not disappear.
CallHolds(k) ==
    /\ call[k].pc \in {"deps", "install"} =>
         call[k].manifest # None /\ call[k].manifest \in Verified
    /\ call[k].pc \in {"enable", "pin_revoked", "pin_deps", "pin_dependents", "pin"} =>
         call[k].release # None /\ Installed(call[k].release)

\* Only a process with a memory store registers a pack.
RegisteredHolds == store = "postgresql" => registered = None

\* The inductive invariant.
CatalogInv == CatalogTypeOK /\ RegisteredHolds /\ RowsHold /\ \A k \in Caller : CallHolds(k)

-----------------------------------------------------------------------------
\* The rows and calls the steps make.
LEMMA PackRows ==
    /\ \A m \in Offered : NewRow(m) \in PackRow
    /\ \A x \in PackRow, b \in BOOLEAN :
         /\ x # None
         /\ [x EXCEPT !.enabled = b] \in PackRow
         /\ [x EXCEPT !.enabled = FALSE, !.revoked = TRUE] \in PackRow
BY DEF CatalogAssumption, PackRow, NewRow

LEMMA CallRows ==
    /\ Idle \in CallRow
    /\ \A x \in CallRow :
         /\ \A at \in {"install", "pin_deps", "pin_dependents", "pin"} :
              [x EXCEPT !.pc = at] \in CallRow
         /\ \A m \in Offered : [x EXCEPT !.pc = "deps", !.manifest = m] \in CallRow
         /\ \A r \in Release : [x EXCEPT !.pc = "enable", !.release = r] \in CallRow
         /\ \A m \in Offered, r \in Release :
              [x EXCEPT !.pc = "pin_revoked", !.release = r, !.manifest = m] \in CallRow
BY DEF Idle, CallRow

\* Releases and what they are made of.
LEMMA Releases ==
    /\ \A m \in Offered : ReleaseOf(m) \in Release
    /\ \A r \in Release : r # None /\ r[1] \in Pack /\ r[2] \in Version
<1>1. \A m \in Offered : ReleaseOf(m) \in Release /\ m.pack \in Pack /\ m.version \in Version
  BY DEF CatalogAssumption, Release, Version
<1>2. \A r \in Release : r # None
  BY DEF CatalogAssumption
<1>3. \A r \in Release : \E m \in Offered : r = <<m.pack, m.version>>
  BY DEF Release, ReleaseOf
<1>4. QED
  BY <1>1, <1>2, <1>3

LEMMA CatalogBegins ==
    ASSUME CatalogInit
    PROVE  CatalogInv
<1>1. CatalogTypeOK /\ RegisteredHolds
  BY CallRows DEF CatalogInit, CatalogTypeOK, RegisteredHolds, Registrable, CatalogAssumption
<1>2. QED
  BY <1>1 DEF CatalogInit, CatalogInv, RowsHold, CallHolds, Installed, Idle

-----------------------------------------------------------------------------
\* A step of one call that leaves the rows alone.
LEMMA CallSteps ==
    ASSUME CatalogInv, NEW k \in Caller, NEW x \in CallRow,
           call' = [call EXCEPT ![k] = x], UNCHANGED <<store, registered, row>>,
           channel' \in [Pack -> Version \cup {None}],
           x.pc \in {"deps", "install"} =>
             x.manifest # None /\ x.manifest \in Verified,
           x.pc \in {"enable", "pin_revoked", "pin_deps", "pin_dependents", "pin"} =>
             x.release # None /\ Installed(x.release)
    PROVE  CatalogInv'
<1>1. CatalogTypeOK' /\ RegisteredHolds'
  BY DEF CatalogInv, CatalogTypeOK, RegisteredHolds
<1>2. RowsHold'
  BY DEF CatalogInv, RowsHold, Installed
<1>3. \A o \in Caller : CallHolds(o)'
  BY DEF CatalogInv, CatalogTypeOK, CallHolds, Installed
<1>4. QED
  BY <1>1, <1>2, <1>3 DEF CatalogInv

\* A step that changes the row of a release: it keeps its manifest, or gets a verified one.
LEMMA RowSteps ==
    ASSUME CatalogInv, NEW r \in Release, NEW x \in PackRow,
           row' = [row EXCEPT ![r] = x], UNCHANGED <<store, registered, channel>>,
           call' = call \/ \E k \in Caller : call' = [call EXCEPT ![k] = Idle],
           ReleaseOf(x.manifest) = r, x.manifest \in Verified
    PROVE  CatalogInv'
<1>1. x # None
  BY PackRows
<1>2. CatalogTypeOK' /\ RegisteredHolds'
  BY CallRows DEF CatalogInv, CatalogTypeOK, RegisteredHolds
<1>3. RowsHold'
  BY DEF CatalogInv, CatalogTypeOK, RowsHold, Installed
<1>4. ASSUME NEW o \in Caller PROVE CallHolds(o)'
  <2>1. CASE call'[o] = Idle
    BY <2>1 DEF Idle, CallHolds
  <2>2. CASE call'[o] = call[o]
    BY <1>1, <2>2 DEF CatalogInv, CatalogTypeOK, CallRow, CallHolds, Installed
  <2>3. QED
    BY <2>1, <2>2 DEF CatalogInv, CatalogTypeOK
<1>5. QED
  BY <1>2, <1>3, <1>4 DEF CatalogInv

\* install_pack of the store, with a verified manifest.
LEMMA Installs ==
    ASSUME CatalogInv, NEW m \in Offered, m \in Verified,
           StoreInstall(m), UNCHANGED <<store, registered, channel>>,
           call' = call \/ \E k \in Caller : call' = [call EXCEPT ![k] = Idle]
    PROVE  CatalogInv'
<1>1. CASE Installed(ReleaseOf(m))
  <2>1. UNCHANGED row
    BY <1>1 DEF StoreInstall
  <2>2. CatalogTypeOK' /\ RegisteredHolds'
    BY <2>1, CallRows DEF CatalogInv, CatalogTypeOK, RegisteredHolds
  <2>3. \A o \in Caller : call'[o] \in {call[o], Idle}
    BY DEF CatalogInv, CatalogTypeOK
  <2>4. \A o \in Caller : CallHolds(o)'
    BY <2>1, <2>3 DEF CatalogInv, CallHolds, Installed, Idle
  <2>5. QED
    BY <2>1, <2>2, <2>4 DEF CatalogInv, RowsHold, Installed
<1>2. CASE ~Installed(ReleaseOf(m))
  <2>1. ReleaseOf(m) \in Release /\ NewRow(m) \in PackRow /\ NewRow(m).manifest = m
    BY Releases, PackRows DEF NewRow
  <2>2. row' = [row EXCEPT ![ReleaseOf(m)] = NewRow(m)]
    BY <1>2 DEF StoreInstall
  <2>3. QED
    BY <2>1, <2>2, RowSteps
<1>3. QED
  BY <1>1, <1>2

\* Enabling, disabling and revoking leave the manifest of an installed pack alone.
LEMMA Toggles ==
    ASSUME CatalogInv, NEW r \in Release, Installed(r),
           UNCHANGED <<store, registered, channel>>,
           \/ \E b \in BOOLEAN : row' = [row EXCEPT ![r].enabled = b]
           \/ row' = [row EXCEPT ![r].enabled = FALSE, ![r].revoked = TRUE],
           call' = call \/ \E k \in Caller : call' = [call EXCEPT ![k] = Idle]
    PROVE  CatalogInv'
<1>1. row[r] \in PackRow
  BY DEF CatalogInv, CatalogTypeOK, Installed
<1>2. ReleaseOf(row[r].manifest) = r /\ row[r].manifest \in Verified
  BY DEF CatalogInv, RowsHold
<1>3. ASSUME NEW b \in BOOLEAN, row' = [row EXCEPT ![r].enabled = b] PROVE CatalogInv'
  <2> DEFINE x == [row[r] EXCEPT !.enabled = b]
  <2>1. x \in PackRow /\ x.manifest = row[r].manifest
    BY <1>1, PackRows DEF PackRow
  <2>2. row' = [row EXCEPT ![r] = x]
    BY <1>3
  <2> HIDE DEF x
  <2>3. QED
    BY <1>2, <2>1, <2>2, RowSteps
<1>4. CASE row' = [row EXCEPT ![r].enabled = FALSE, ![r].revoked = TRUE]
  <2> DEFINE x == [row[r] EXCEPT !.enabled = FALSE, !.revoked = TRUE]
  <2>1. x \in PackRow /\ x.manifest = row[r].manifest
    BY <1>1, PackRows DEF PackRow
  <2>2. row' = [row EXCEPT ![r] = x]
    BY <1>4 DEF CatalogInv, CatalogTypeOK
  <2> HIDE DEF x
  <2>3. QED
    BY <1>2, <2>1, <2>2, RowSteps
<1>5. QED
  BY <1>3, <1>4

\* A call goes on or returns.
LEMMA CallProceeds ==
    ASSUME CatalogInv, NEW k \in Caller, UNCHANGED <<store, registered, row, channel>>,
           \/ call[k].pc = "deps" /\ Goto(k, "install")
           \/ call[k].pc = "pin_revoked" /\ Goto(k, "pin_deps")
           \/ call[k].pc = "pin_deps" /\ Goto(k, "pin_dependents")
           \/ call[k].pc = "pin_dependents" /\ Goto(k, "pin")
           \/ CatalogReturn(k)
    PROVE  CatalogInv'
<1>1. call[k] \in CallRow /\ channel' \in [Pack -> Version \cup {None}] /\ CallHolds(k)
  BY DEF CatalogInv, CatalogTypeOK
<1>2. CASE CatalogReturn(k)
  BY <1>1, <1>2, CallRows, CallSteps DEF CatalogReturn, Idle
<1>3. ASSUME NEW at \in {"install", "pin_deps", "pin_dependents", "pin"}, Goto(k, at),
             at = "install" => call[k].pc = "deps",
             at # "install" => call[k].pc \in {"pin_revoked", "pin_deps", "pin_dependents"}
      PROVE  CatalogInv'
  <2> DEFINE x == [call[k] EXCEPT !.pc = at]
  <2>1. /\ x \in CallRow /\ x.pc = at /\ x.manifest = call[k].manifest
        /\ x.release = call[k].release
    <3>1. x \in CallRow
      BY <1>1, <1>3, CallRows
    <3>2. QED
      BY <1>1, <3>1 DEF CallRow
  <2>2. call' = [call EXCEPT ![k] = x]
    BY <1>3 DEF Goto
  <2> HIDE DEF x
  <2>3. QED
    BY <1>1, <1>3, <2>1, <2>2, CallSteps DEF CallHolds
<1>4. QED
  BY <1>2, <1>3

LEMMA LifecycleStep ==
    ASSUME CatalogInv, NEW k \in Caller, Lifecycle(k)
    PROVE  CatalogInv'
<1>1. call[k] \in CallRow /\ channel \in [Pack -> Version \cup {None}]
  BY DEF CatalogInv, CatalogTypeOK
<1>2. ASSUME NEW m \in Offered, InstallVerify(k, m) PROVE CatalogInv'
  <2> DEFINE x == [call[k] EXCEPT !.pc = "deps", !.manifest = m]
  <2>1. x \in CallRow /\ x.pc = "deps" /\ x.manifest = m
    <3>1. x \in CallRow
      BY <1>1, CallRows
    <3>2. QED
      BY <1>1, <3>1 DEF CallRow
  <2>2. call' = [call EXCEPT ![k] = x]
    BY <1>2 DEF InstallVerify, CatalogInv, CatalogTypeOK
  <2> HIDE DEF x
  <2>3. m # None
    BY DEF CatalogAssumption
  <2>4. QED
    BY <1>1, <1>2, <2>1, <2>2, <2>3, CallSteps DEF InstallVerify
<1>3. CASE InstallDependencies(k) \/ StableDependencies(k)
  BY <1>3, CallProceeds DEF InstallDependencies, StableDependencies
<1>4. CASE InstallCommit(k)
  <2>1. call[k].manifest \in Offered /\ call[k].manifest \in Verified
    BY <1>1, <1>4 DEF InstallCommit, CatalogInv, CallHolds, CallRow
  <2>2. QED
    BY <1>4, <2>1, Installs DEF InstallCommit, CatalogReturn
<1>5. CASE EnableCommit(k)
  <2>1. call[k].release \in Release /\ Installed(call[k].release)
    BY <1>1, <1>5 DEF EnableCommit, CatalogInv, CallHolds, CallRow
  <2>2. QED
    BY <1>5, <2>1, Toggles DEF EnableCommit, SetEnabled, CatalogReturn
<1>6. ASSUME NEW r \in Release, EnableCheck(k, r) PROVE CatalogInv'
  <2> DEFINE x == [call[k] EXCEPT !.pc = "enable", !.release = r]
  <2>1. x \in CallRow /\ x.pc = "enable" /\ x.release = r /\ r # None
    <3>1. x \in CallRow /\ r # None
      BY <1>1, CallRows, Releases
    <3>2. QED
      BY <1>1, <3>1 DEF CallRow
  <2>2. call' = [call EXCEPT ![k] = x]
    BY <1>6 DEF EnableCheck, CatalogInv, CatalogTypeOK
  <2> HIDE DEF x
  <2>3. QED
    BY <1>1, <1>6, <2>1, <2>2, CallSteps DEF EnableCheck
<1>7. ASSUME NEW r \in Release, StableTarget(k, r) PROVE CatalogInv'
  <2> DEFINE x == [call[k] EXCEPT !.pc = "pin_revoked", !.release = r, !.manifest = row[r].manifest]
  <2>1. row[r].manifest \in Offered
    BY <1>7 DEF StableTarget, Installed, CatalogInv, CatalogTypeOK, PackRow
  <2>2. x \in CallRow /\ x.pc = "pin_revoked" /\ x.release = r /\ r # None
    <3>1. x \in CallRow /\ r # None
      BY <1>1, <2>1, CallRows, Releases
    <3>2. QED
      BY <1>1, <3>1 DEF CallRow
  <2>3. call' = [call EXCEPT ![k] = x]
    BY <1>7 DEF StableTarget, CatalogInv, CatalogTypeOK
  <2> HIDE DEF x
  <2>4. QED
    BY <1>1, <1>7, <2>2, <2>3, CallSteps DEF StableTarget
<1>8. CASE StableRevoked(k)
  BY <1>8, CallProceeds DEF StableRevoked
<1>9. CASE StableDependents(k)
  BY <1>9, CallProceeds DEF StableDependents
<1>10. CASE StableCommit(k)
  <2>1. call[k].release \in Release
    BY <1>1, <1>10 DEF StableCommit, CatalogInv, CallHolds, CallRow
  <2>2. channel' \in [Pack -> Version \cup {None}]
    BY <1>1, <1>10, <2>1, Releases DEF StableCommit, ChannelStored
  <2>3. QED
    BY <1>10, <2>2, CallRows, CallSteps DEF StableCommit, CatalogReturn, Idle
<1>11. QED
  BY <1>2, <1>3, <1>4, <1>5, <1>6, <1>7, <1>8, <1>9, <1>10 DEF Lifecycle

LEMMA CatalogStep ==
    ASSUME CatalogInv, [CatalogNext]_catalogVars
    PROVE  CatalogInv'
<1>1. ASSUME NEW m \in Local, Bootstrap(m) PROVE CatalogInv'
  BY <1>1, Installs DEF Bootstrap, CatalogAssumption
<1>2. ASSUME NEW r \in Release, Disable(r) \/ Revoke(r) PROVE CatalogInv'
  BY <1>2, Toggles DEF Disable, SetEnabled, Revoke
<1>3. CASE UNCHANGED catalogVars
  BY <1>3 DEF catalogVars, CatalogInv, CatalogTypeOK, RegisteredHolds, RowsHold, CallHolds, Installed
<1>4. QED
  BY <1>1, <1>2, <1>3, LifecycleStep DEF CatalogNext

LEMMA CatalogInductive ==
    CatalogSpec => []CatalogInv
<1>1. CatalogInit => CatalogInv
  BY CatalogBegins
<1>2. CatalogInv /\ [CatalogNext]_catalogVars => CatalogInv'
  BY CatalogStep
<1>3. QED
  BY <1>1, <1>2, PTL DEF CatalogSpec

-----------------------------------------------------------------------------
\* Whatever the readers are handed is a listable row of the tenant or the registered pack.
LEMMA HandedIsListed ==
    ASSUME NEW m \in HandedOut
    PROVE  m \in Registered \/ \E r \in Release : Listable(r) /\ m = row[r].manifest
<1> DEFINE Goals == UNION {GoalTypeAnswers(type) : type \in GoalType}
           Subjects == UNION {SubjectAnswers(r) : r \in Release}
<1>1. m \in Registered \/ \E p : m \in TenantListed(p)
  <2>1. \A p, type : QueryCandidates(p, type) \subseteq TenantListed(p)
    BY DEF QueryCandidates
  <2>2. \A p : IndexedOf(p) \subseteq TenantListed(p)
    BY DEF IndexedOf
  <2>3. \A type : m \in QueryAnswers(type) => \E p : m \in TenantListed(p)
    BY <2>1 DEF QueryAnswers
  <2>4. \A type : m \in IndexAnswers(type) => m \in Registered \/ \E p : m \in TenantListed(p)
    BY <2>2 DEF IndexAnswers
  <2>5. \A r : m \in SubjectAnswers(r) => m \in Registered \/ m \in TenantListed(r[1])
    BY DEF SubjectAnswers, Listed
  <2>6. CASE m \in Goals
    <3>1. PICK type \in GoalType : m \in GoalTypeAnswers(type)
      BY <2>6
    <3>2. QED
      BY <2>3, <2>4, <3>1 DEF GoalTypeAnswers
  <2>7. CASE m \in Subjects
    <3>1. PICK r \in Release : m \in SubjectAnswers(r)
      BY <2>7
    <3>2. QED
      BY <2>5, <3>1
  <2>8. m \in Goals \cup Subjects
    BY DEF HandedOut
  <2> HIDE DEF Goals, Subjects
  <2>9. QED
    BY <2>6, <2>7, <2>8
<1>2. QED
  BY <1>1 DEF TenantListed

\* Rows, channels and calls of the catalog are well typed for any packs, sources and keys.
THEOREM CatalogTypeCorrect ==
    CatalogSpec => []CatalogTypeOK
<1>1. CatalogInv => CatalogTypeOK
  BY DEF CatalogInv
<1>2. QED
  BY <1>1, CatalogInductive, PTL

\* What Runs and Trials are handed was verified when it was installed, is what is stored, and is
\* not revoked, however installs, pins, revocations and removals interleave - a row keeps the
\* manifest it was verified with - or it is the pack that a process with a memory store
\* registered for itself, of which the theorem says nothing more.
THEOREM HandedOutIsTrusted ==
    CatalogSpec => []UsedIsTrusted
<1>1. CatalogInv => UsedIsTrusted
  <2> SUFFICES ASSUME CatalogInv, NEW m \in HandedOut
               PROVE  \/ store = "memory" /\ m = registered
                      \/ /\ m \in Verified
                         /\ row[ReleaseOf(m)].manifest = m
                         /\ ~row[ReleaseOf(m)].revoked
    BY DEF UsedIsTrusted
  <2>1. CASE m \in Registered
    BY <2>1 DEF Registered, CatalogInv, CatalogTypeOK, RegisteredHolds, Stores
  <2>2. CASE \E r \in Release : Listable(r) /\ m = row[r].manifest
    <3>1. PICK r \in Release : Listable(r) /\ m = row[r].manifest
      BY <2>2
    <3>2. ReleaseOf(m) = r /\ m \in Verified
      BY <3>1 DEF CatalogInv, RowsHold, Listable
    <3>3. QED
      BY <3>1, <3>2 DEF Listable
  <2>3. QED
    BY <2>1, <2>2, HandedIsListed
<1>2. QED
  BY <1>1, CatalogInductive, PTL
=============================================================================
