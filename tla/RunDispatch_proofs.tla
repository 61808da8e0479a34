------------------------- MODULE RunDispatch_proofs -------------------------
(***************************************************************************)
(* Proofs about RunDispatch, for any number of Runs, processes and pools,  *)
(* and any limits: typing, one execution per Run, no request dropped; then *)
(* about EventDelivery: typing, linear audit chains, delivery at least     *)
(* once with its duplicates recognised.                                    *)
(***************************************************************************)
EXTENDS RunDispatch, EventDelivery, TLAPS

USE DispatchAssumption

\* What a call of start leaves behind is well typed, and Temporal never forgets a workflow.
LEMMA StartStep ==
    ASSUME TypeOK, NEW d \in Dispatcher, NEW r \in Run,
           StartReturns(d, r) \/ StartRaises(d, r)
    PROVE  /\ workflow' \in [Run -> {"none", "running", "closed"}]
           /\ executions' \in [Run -> Nat]
           /\ faults' \in 0..MaxFaults
<1>1. CASE Launch(r)
  BY <1>1 DEF StartReturns, StartRaises, Launch, Fault, NotLaunched, TypeOK
<1>2. CASE NotLaunched
  BY <1>2 DEF StartReturns, StartRaises, Launch, Fault, NotLaunched, TypeOK
<1>3. QED
  BY <1>1, <1>2 DEF StartReturns, StartRaises

\* A Run's move leads to a state of a Run.
LEMMA MoveStep ==
    ASSUME TypeOK, NEW r \in Run, NEW target, MoveRun(r, target)
    PROVE  TypeOK'
<1>1. target \in RunStatus
  BY DEF MoveRun, RunTransitions, RunStatus
<1>2. status' \in [Run -> RunStatus \cup {"none"}]
  BY <1>1 DEF MoveRun, TypeOK
<1>3. QED
  BY <1>2 DEF MoveRun, TypeOK, loopVars

\* A process that is given a Run to mark or to restart, or is left alone, is well typed.
LEMMA CurrentStep ==
    ASSUME TypeOK, NEW d \in Dispatcher, NEW r \in Run, NEW next \in {"mark", "restart"},
           \/ pc' = [pc EXCEPT ![d] = next] /\ current' = [current EXCEPT ![d] = r]
           \/ UNCHANGED <<pc, current>>
    PROVE  /\ pc' \in [Dispatcher -> Pcs]
           /\ current' \in [Dispatcher -> Run \cup {NoRun}]
           /\ \A e \in Dispatcher : pc'[e] \in {"mark", "restart"} => current'[e] \in Run
<1>1. CASE UNCHANGED <<pc, current>>
  BY <1>1 DEF TypeOK
<1>2. CASE pc' = [pc EXCEPT ![d] = next] /\ current' = [current EXCEPT ![d] = r]
  <2>1. pc' \in [Dispatcher -> Pcs]
    BY <1>2 DEF TypeOK, Pcs
  <2>2. current' \in [Dispatcher -> Run \cup {NoRun}]
    BY <1>2 DEF TypeOK
  <2>3. ASSUME NEW e \in Dispatcher, pc'[e] \in {"mark", "restart"} PROVE current'[e] \in Run
    <3>1. CASE e = d
      BY <1>2, <3>1 DEF TypeOK
    <3>2. CASE e # d
      BY <1>2, <2>3, <3>2 DEF TypeOK
    <3>3. QED
      BY <3>1, <3>2
  <2>4. QED
    BY <2>1, <2>2, <2>3
<1>3. QED
  BY <1>1, <1>2

\* Every step of the polling and reconciling loop keeps the types.
LEMMA LoopTypeStep ==
    ASSUME TypeOK, NEW d \in Dispatcher, Loop(d)
    PROVE  TypeOK'
<1>1. CASE Poll(d)
  BY <1>1 DEF Poll, OldestOf, TypeOK, Pcs
<1>2. CASE Dispatch(d)
  <2>1. PICK r \in todo[d] :
          /\ todo' = [todo EXCEPT ![d] = @ \ {r}]
          /\ \/ /\ StartReturns(d, r)
                /\ pc' = [pc EXCEPT ![d] = "mark"]
                /\ current' = [current EXCEPT ![d] = r]
             \/ StartRaises(d, r) /\ SkipEvent(d, r)
    BY <1>2 DEF Dispatch, OldestOf
  <2>2. r \in Run
    BY DEF TypeOK
  <2>3. todo' \in [Dispatcher -> SUBSET Run]
    BY <2>1 DEF TypeOK
  <2>4. /\ pc' \in [Dispatcher -> Pcs]
        /\ current' \in [Dispatcher -> Run \cup {NoRun}]
        /\ \A e \in Dispatcher : pc'[e] \in {"mark", "restart"} => current'[e] \in Run
    BY <2>1, <2>2, CurrentStep DEF SkipEvent
  <2>5. /\ workflow' \in [Run -> {"none", "running", "closed"}]
        /\ executions' \in [Run -> Nat]
        /\ faults' \in 0..MaxFaults
    BY <2>1, <2>2, StartStep
  <2>6. UNCHANGED <<status, published, snapshot, iteration>>
    BY <1>2 DEF Dispatch
  <2>7. QED
    BY <2>3, <2>4, <2>5, <2>6 DEF TypeOK
<1>3. CASE Mark(d)
  BY <1>3 DEF Mark, TypeOK, Pcs
<1>4. CASE EndPoll(d)
  <2>1. (iteration[d] + 1) % ReconcileEvery \in 0..(ReconcileEvery - 1)
    BY DEF TypeOK
  <2>2. iteration' \in [Dispatcher -> 0..(ReconcileEvery - 1)]
    BY <1>4, <2>1 DEF EndPoll, TypeOK
  <2>3. /\ pc' \in [Dispatcher -> Pcs]
        /\ \A e \in Dispatcher : pc'[e] \in {"mark", "restart"} => pc'[e] = pc[e]
    BY <1>4 DEF EndPoll, TypeOK, Pcs
  <2>4. QED
    BY <1>4, <2>2, <2>3 DEF EndPoll, TypeOK
<1>5. CASE List(d)
  <2>1. PICK batch \in SUBSET Run :
          /\ todo' = [todo EXCEPT ![d] = batch]
          /\ snapshot' = [snapshot EXCEPT ![d] = [r \in Run |-> IF r \in batch THEN status[r]
                                                                ELSE "none"]]
    BY <1>5 DEF List
  <2>2. [r \in Run |-> IF r \in batch THEN status[r] ELSE "none"]
            \in [Run -> RunStatus \cup {"none"}]
    BY DEF TypeOK
  <2>3. snapshot' \in [Dispatcher -> [Run -> RunStatus \cup {"none"}]]
    BY <2>1, <2>2 DEF TypeOK
  <2>4. todo' \in [Dispatcher -> SUBSET Run]
    BY <2>1 DEF TypeOK
  <2>5. QED
    BY <1>5, <2>3, <2>4 DEF List, TypeOK, Pcs
<1>6. CASE Observe(d)
  <2>1. PICK r \in todo[d] :
          /\ todo' = [todo EXCEPT ![d] = @ \ {r}]
          /\ snapshot' = [snapshot EXCEPT ![d][r] = "none"]
          /\ \/ /\ pc' = [pc EXCEPT ![d] = "restart"]
                /\ current' = [current EXCEPT ![d] = r]
             \/ UNCHANGED <<pc, current>>
    BY <1>6 DEF Observe
  <2>2. r \in Run
    BY DEF TypeOK
  <2>3. todo' \in [Dispatcher -> SUBSET Run]
    BY <2>1 DEF TypeOK
  <2>4. snapshot' \in [Dispatcher -> [Run -> RunStatus \cup {"none"}]]
    BY <2>1, <2>2 DEF TypeOK
  <2>5. /\ pc' \in [Dispatcher -> Pcs]
        /\ current' \in [Dispatcher -> Run \cup {NoRun}]
        /\ \A e \in Dispatcher : pc'[e] \in {"mark", "restart"} => current'[e] \in Run
    BY <2>1, <2>2, CurrentStep
  <2>6. UNCHANGED <<status, published, workflow, executions, iteration, faults>>
    BY <1>6 DEF Observe
  <2>7. QED
    BY <2>3, <2>4, <2>5, <2>6 DEF TypeOK
<1>7. CASE Restart(d)
  <2>1. current[d] \in Run
    BY <1>7 DEF Restart, TypeOK
  <2>2. /\ pc' \in [Dispatcher -> Pcs]
        /\ current' \in [Dispatcher -> Run \cup {NoRun}]
        /\ \A e \in Dispatcher : pc'[e] \in {"mark", "restart"} => current'[e] \in Run
    BY <1>7 DEF Restart, TypeOK, Pcs
  <2>3. QED
    BY <1>7, <2>1, <2>2, StartStep DEF Restart, TypeOK
<1>8. CASE EndReconcile(d)
  BY <1>8 DEF EndReconcile, TypeOK, Pcs
<1>9. QED
  BY <1>1, <1>2, <1>3, <1>4, <1>5, <1>6, <1>7, <1>8 DEF Loop

\* So does every step of the system.
LEMMA TypeStep == TypeOK /\ [Next]_vars => TypeOK'
<1> SUFFICES ASSUME TypeOK, [Next]_vars PROVE TypeOK'
  OBVIOUS
<1>1. ASSUME NEW d \in Dispatcher, Crash(d) PROVE TypeOK'
  BY <1>1 DEF Crash, Fault, TypeOK, Pcs, Unread
<1>2. ASSUME NEW r \in Run, Surroundings(r) PROVE TypeOK'
  <2>1. CASE RequestRun(r)
    BY <2>1 DEF RequestRun, TypeOK, RunStatus, loopVars
  <2>2. CASE OperatorMovesRun(r) \/ WorkflowMovesRun(r)
    BY <2>2, MoveStep DEF OperatorMovesRun, WorkflowMovesRun
  <2>3. CASE WorkflowCloses(r)
    BY <2>3 DEF WorkflowCloses, TypeOK, loopVars
  <2>4. QED
    BY <1>2, <2>1, <2>2, <2>3 DEF Surroundings
<1>3. CASE UNCHANGED vars
  BY <1>3 DEF vars, loopVars, TypeOK
<1>4. QED
  BY <1>1, <1>2, <1>3, LoopTypeStep DEF Next

\* The initial state is well typed.
LEMMA TypeInit == Init => TypeOK
  BY DEF Init, TypeOK, Pcs, Unread

\* Rows, processes and counters keep the states the code knows: no batch, snapshot or
\* current Run of the polling loop ever names something that is not a Run.
THEOREM DispatchTypeCorrect == Spec => []TypeOK
  BY TypeInit, TypeStep, PTL DEF Spec

-----------------------------------------------------------------------------
\* Temporal counts one execution for every workflow it knows, and none for the others.
ExecutionsCounted == \A r \in Run : executions[r] = IF workflow[r] = "none" THEN 0 ELSE 1

\* A process about to mark an event has seen the workflow of its Run accepted.
MarkIsEarned == \A d \in Dispatcher : pc[d] = "mark" => workflow[current[d]] # "none"

DispatchInv == ExecutionsCounted /\ MarkIsEarned /\ PublishedIsStarted

\* Nothing that has started or ended is ever as if it had not.
LEMMA Monotone ==
    ASSUME TypeOK, [Next]_vars
    PROVE  \A r \in Run : /\ workflow[r] # "none" => workflow'[r] # "none"
                          /\ status[r] \in RunTerminal => status'[r] \in RunTerminal
<1> DEFINE Kept == \A r \in Run : /\ workflow[r] # "none" => workflow'[r] # "none"
                                  /\ status[r] \in RunTerminal => status'[r] \in RunTerminal
<1> HIDE DEF Kept
<1>1. ASSUME NEW q \in Run, Launch(q) \/ NotLaunched, UNCHANGED status PROVE Kept
  BY <1>1 DEF Launch, NotLaunched, TypeOK, Kept
<1>2. ASSUME UNCHANGED <<workflow, status>> PROVE Kept
  BY <1>2 DEF Kept
<1>3. ASSUME NEW d \in Dispatcher, Dispatch(d) PROVE Kept
  BY <1>1, <1>3 DEF Dispatch, OldestOf, StartReturns, StartRaises, TypeOK
<1>4. ASSUME NEW d \in Dispatcher, Restart(d) PROVE Kept
  BY <1>1, <1>4 DEF Restart, StartReturns, StartRaises, TypeOK
<1>5. ASSUME NEW d \in Dispatcher, Loop(d) \/ Crash(d) PROVE Kept
  BY <1>2, <1>3, <1>4, <1>5 DEF Loop, Crash, Poll, Mark, EndPoll, List, Observe, EndReconcile
<1>6. ASSUME NEW q \in Run, Surroundings(q) PROVE Kept
  <2>1. ASSUME NEW target, MoveRun(q, target) PROVE Kept
    <3>1. status[q] \notin RunTerminal
      BY <2>1 DEF MoveRun, RunTransitions, RunTerminal
    <3>2. QED
      BY <2>1, <3>1 DEF MoveRun, TypeOK, Kept
  <2>2. CASE RequestRun(q)
    BY <2>2 DEF RequestRun, RunTerminal, TypeOK, Kept
  <2>3. CASE WorkflowCloses(q)
    BY <2>3 DEF WorkflowCloses, TypeOK, Kept
  <2>4. QED
    BY <1>6, <2>1, <2>2, <2>3 DEF Surroundings, OperatorMovesRun, WorkflowMovesRun
<1>7. QED
  BY <1>2, <1>5, <1>6 DEF Next, vars, Kept

\* Only a start that finds no workflow is counted, and it leaves one.
LEMMA CountStep ==
    ASSUME TypeOK, ExecutionsCounted, [Next]_vars
    PROVE  ExecutionsCounted'
<1>1. ASSUME NEW d \in Dispatcher, NEW r \in Run, StartReturns(d, r) \/ StartRaises(d, r)
      PROVE  ExecutionsCounted'
  <2>1. CASE NotLaunched
    BY <2>1 DEF NotLaunched, ExecutionsCounted
  <2>2. CASE StartAccepted(d, r) /\ Launch(r)
    BY <2>2 DEF StartAccepted, Launch, ExecutionsCounted, TypeOK
  <2>3. QED
    BY <1>1, <2>1, <2>2 DEF StartReturns, StartRaises
<1>2. ASSUME UNCHANGED <<workflow, executions>> PROVE ExecutionsCounted'
  BY <1>2 DEF ExecutionsCounted
<1>3. ASSUME NEW d \in Dispatcher, Dispatch(d) PROVE ExecutionsCounted'
  BY <1>1, <1>3 DEF Dispatch, OldestOf, TypeOK
<1>4. ASSUME NEW d \in Dispatcher, Restart(d) PROVE ExecutionsCounted'
  BY <1>1, <1>4 DEF Restart, TypeOK
<1>5. ASSUME NEW d \in Dispatcher, Loop(d) \/ Crash(d) PROVE ExecutionsCounted'
  BY <1>2, <1>3, <1>4, <1>5 DEF Loop, Crash, Poll, Mark, EndPoll, List, Observe, EndReconcile
<1>6. ASSUME NEW r \in Run, WorkflowCloses(r) PROVE ExecutionsCounted'
  BY <1>6 DEF WorkflowCloses, ExecutionsCounted, TypeOK
<1>7. ASSUME NEW r \in Run, Surroundings(r) PROVE ExecutionsCounted'
  BY <1>2, <1>6, <1>7 DEF Surroundings, RequestRun, OperatorMovesRun, WorkflowMovesRun, MoveRun
<1>8. QED
  BY <1>2, <1>5, <1>7 DEF Next, vars

\* A process gets to the mark only through a start that returned.
LEMMA MarkStep ==
    ASSUME TypeOK, MarkIsEarned, [Next]_vars
    PROVE  MarkIsEarned'
<1>1. ASSUME NEW d \in Dispatcher,
             \A e \in Dispatcher : pc'[e] = "mark" => pc[e] = "mark" /\ current'[e] = current[e]
      PROVE  MarkIsEarned'
  BY <1>1, Monotone DEF MarkIsEarned, TypeOK
<1>2. ASSUME NEW d \in Dispatcher, Dispatch(d) PROVE MarkIsEarned'
  <2>1. PICK r \in todo[d] :
          \/ /\ StartReturns(d, r)
             /\ pc' = [pc EXCEPT ![d] = "mark"]
             /\ current' = [current EXCEPT ![d] = r]
          \/ UNCHANGED <<pc, current>>
    BY <1>2 DEF Dispatch, OldestOf, SkipEvent
  <2>2. r \in Run
    BY DEF TypeOK
  <2>3. CASE UNCHANGED <<pc, current>>
    BY <1>1, <2>3
  <2>4. CASE /\ StartReturns(d, r)
             /\ pc' = [pc EXCEPT ![d] = "mark"]
             /\ current' = [current EXCEPT ![d] = r]
    <3>1. workflow'[r] = "running"
      BY <2>2, <2>4 DEF StartReturns, Launch, TypeOK
    <3>2. QED
      BY <2>2, <2>4, <3>1, Monotone DEF MarkIsEarned, TypeOK
  <2>5. QED
    BY <2>1, <2>3, <2>4
<1>3. ASSUME NEW d \in Dispatcher, Poll(d) \/ Mark(d) \/ EndPoll(d) \/ List(d) \/ Restart(d)
                                     \/ EndReconcile(d) \/ Crash(d)
      PROVE  MarkIsEarned'
  <2>1. ASSUME NEW e \in Dispatcher, pc'[e] = "mark"
        PROVE  pc[e] = "mark" /\ current'[e] = current[e]
    BY <1>3, <2>1 DEF Poll, Mark, EndPoll, List, Restart, EndReconcile, Crash, TypeOK
  <2>2. QED
    BY <1>1, <2>1
<1>4. ASSUME NEW d \in Dispatcher, Observe(d) PROVE MarkIsEarned'
  <2>1. ASSUME NEW e \in Dispatcher, pc'[e] = "mark"
        PROVE  pc[e] = "mark" /\ current'[e] = current[e]
    BY <1>4, <2>1 DEF Observe, TypeOK
  <2>2. QED
    BY <1>1, <1>4, <2>1
<1>5. ASSUME UNCHANGED loopVars PROVE MarkIsEarned'
  BY <1>5, Monotone DEF MarkIsEarned, TypeOK, loopVars
<1>6. ASSUME NEW r \in Run, Surroundings(r) PROVE MarkIsEarned'
  BY <1>5, <1>6 DEF Surroundings, RequestRun, OperatorMovesRun, WorkflowMovesRun, MoveRun,
     WorkflowCloses
<1>7. QED
  BY <1>2, <1>3, <1>4, <1>5, <1>6 DEF Next, Loop, vars

\* Only a poll that finds the Run ended, and an earned mark, publish an event.
LEMMA PublishStep ==
    ASSUME TypeOK, MarkIsEarned, PublishedIsStarted, [Next]_vars
    PROVE  PublishedIsStarted'
<1>1. ASSUME UNCHANGED published PROVE PublishedIsStarted'
  BY <1>1, Monotone DEF PublishedIsStarted, TypeOK
<1>2. ASSUME NEW d \in Dispatcher, Poll(d) PROVE PublishedIsStarted'
  BY <1>2, Monotone DEF Poll, OldestOf, PublishedIsStarted, TypeOK
<1>3. ASSUME NEW d \in Dispatcher, Mark(d) PROVE PublishedIsStarted'
  <2>1. current[d] \in Run /\ workflow[current[d]] # "none"
    BY <1>3 DEF Mark, MarkIsEarned, TypeOK
  <2>2. QED
    BY <1>3, <2>1, Monotone DEF Mark, PublishedIsStarted, TypeOK
<1>4. QED
  BY <1>1, <1>2, <1>3 DEF Next, Loop, Crash, Dispatch, EndPoll, List, Observe, Restart,
     EndReconcile, Surroundings, RequestRun, OperatorMovesRun, WorkflowMovesRun, MoveRun,
     WorkflowCloses, vars

\* The inductive invariant of the dispatcher.
LEMMA DispatchInvariant == Spec => [](TypeOK /\ DispatchInv)
<1>1. Init => DispatchInv
  BY DEF Init, DispatchInv, ExecutionsCounted, MarkIsEarned, PublishedIsStarted
<1>2. TypeOK /\ DispatchInv /\ [Next]_vars => DispatchInv'
  BY CountStep, MarkStep, PublishStep DEF DispatchInv
<1>3. QED
  BY <1>1, <1>2, TypeInit, TypeStep, PTL DEF Spec

\* However many processes poll and reconcile, crash and act on stale snapshots, a Run has
\* at most one workflow execution.
THEOREM ExecutedOnce == Spec => []OneExecution
<1>1. DispatchInv => OneExecution
  BY DEF DispatchInv, ExecutionsCounted, OneExecution
<1>2. QED
  BY <1>1, DispatchInvariant, PTL

\* No request is dropped: a published event belongs to a Run that has a workflow or has
\* ended, whichever starts failed and wherever a process died.
THEOREM NoRequestDropped == Spec => []PublishedIsStarted
<1>1. DispatchInv => PublishedIsStarted
  BY DEF DispatchInv
<1>2. QED
  BY <1>1, DispatchInvariant, PTL

-----------------------------------------------------------------------------
(***************************************************************************)
(* EventDelivery: the audit chain, the outbox and the inbox that carry     *)
(* events like the requests RunDispatch works on.                          *)
(***************************************************************************)
HIDE DispatchAssumption
USE DeliveryAssumption

\* One transaction at a time appends to the chain of a tenant: it holds the advisory lock.
OneAppends ==
    /\ \A e \in Event : tx[e].pc = "appending" => e \in Fact
    /\ \A f, g \in Fact : tx[f].pc = "appending" /\ tx[g].pc = "appending"
                            /\ TenantOf[f] = TenantOf[g] => f = g

ChainInv == OneAppends /\ ChainIsLinear

\* What a relay has polled is in the outbox, for good, and what it will mark is in the channel.
RelayHolds(r) ==
    /\ \A i \in DOMAIN relay[r].rows : relay[r].rows[i] \in outbox
    /\ relay[r].marked \subseteq channel

\* A consumer handles what was published, and reserves a message before its slot is taken.
ConsumerHolds(c) ==
    /\ consumer[c].pc # "idle" => consumer[c].event \in channel
    /\ consumer[c].pc \in Holding => consumer[c].event \notin inbox

\* The unique message id lets one consumer at a time reserve a message.
OneReservation ==
    \A c, d \in Consumer : consumer[c].pc \in Holding /\ consumer[d].pc \in Holding
                             /\ consumer[c].event = consumer[d].event => c = d

\* Only what was committed is relayed, only what was relayed is marked and received.
FlowInv ==
    /\ \A e \in outbox : tx[e].pc = "committed"
    /\ \A r \in Relay : RelayHolds(r)
    /\ channel \subseteq outbox /\ publishedRows \subseteq channel
    /\ \A c \in Consumer : ConsumerHolds(c)
    /\ OneReservation

\* The inductive invariant.
DeliveryInv == DeliveryTypeOK /\ ChainInv /\ FlowInv
-----------------------------------------------------------------------------
(* Typing.                                                                  *)

\* A batch is a sequence of the rows that are pending.
LEMMA OldestAreRows ==
    ASSUME NEW S, NEW s \in OldestFirst(S)
    PROVE  s \in Seq(S)
<1>1. PICK n \in 1..Batch : s \in [1..n -> S]
  BY DEF OldestFirst
<1>2. QED
  BY <1>1

\* What the steps make of a transaction, of a poll and of a receipt.
LEMMA TxRows ==
    /\ NoTx \in TxRow /\ [NoTx EXCEPT !.pc = "aborted"] \in TxRow
    /\ \A x \in TxRow, n \in Nat :
         /\ [x EXCEPT !.pc = "open", !.stamp = n] \in TxRow
         /\ [x EXCEPT !.pc = "appending", !.last = n] \in TxRow
         /\ [x EXCEPT !.pc = "committed", !.last = 0] \in TxRow
         /\ [x EXCEPT !.pc = "committed"] \in TxRow
BY DEF NoTx, TxRow

LEMMA PollRows ==
    /\ IdleRelay \in PollRow
    /\ \A rows \in Seq(Event) :
         [pc |-> "polling", rows |-> rows, marked |-> {}] \in PollRow
    /\ \A x \in PollRow, rows \in Seq(Event), e \in Envelope :
         /\ [x EXCEPT !.rows = rows] \in PollRow
         /\ [x EXCEPT !.rows = rows, !.marked = @ \cup {e}] \in PollRow
<1>1. IdleRelay \in PollRow
  BY DEF IdleRelay, PollRow
<1>2. \A rows \in Seq(Event) :
        [pc |-> "polling", rows |-> rows, marked |-> {}] \in PollRow
  BY DEF PollRow
<1>3. \A x \in PollRow, rows \in Seq(Event), e \in Envelope :
        /\ [x EXCEPT !.rows = rows] \in PollRow
        /\ [x EXCEPT !.rows = rows, !.marked = @ \cup {e}] \in PollRow
  BY DEF PollRow
<1>4. QED
  BY <1>1, <1>2, <1>3

LEMMA ReceiptRows ==
    /\ IdleConsumer \in ReceiptRow
    /\ \A e \in Envelope : [pc |-> "selected", event |-> e] \in ReceiptRow
    /\ \A x \in ReceiptRow, at \in Holding : [x EXCEPT !.pc = at] \in ReceiptRow
BY DEF IdleConsumer, ReceiptRow, Holding

LEMMA DeliveryInitInv ==
    ASSUME DeliveryInit
    PROVE  DeliveryInv
<1>1. DeliveryTypeOK
  <2>1. tx \in [Event -> TxRow] /\ relay \in [Relay -> PollRow] /\ consumer \in [Consumer -> ReceiptRow]
    BY TxRows, PollRows, ReceiptRows DEF DeliveryInit
  <2>2. audit \in [Tenant -> Seq(ChainEntry)] /\ applied \in Seq(Envelope)
    BY DEF DeliveryInit
  <2>3. QED
    BY <2>1, <2>2 DEF DeliveryInit, DeliveryTypeOK, DeliveryAssumption
<1>2. ChainInv
  BY DEF DeliveryInit, ChainInv, OneAppends, ChainIsLinear, VerifyAuditChain, NoTx, Event
<1>3. /\ \A r \in Relay : RelayHolds(r)
      /\ OneReservation /\ \A c \in Consumer : ConsumerHolds(c)
  BY DEF DeliveryInit, RelayHolds, OneReservation, ConsumerHolds, Holding, IdleRelay, IdleConsumer
<1>4. QED
  BY <1>1, <1>2, <1>3 DEF DeliveryInit, DeliveryInv, FlowInv

\* A business transaction.
LEMMA BusinessTyped ==
    ASSUME DeliveryTypeOK, NEW e \in Event,
           \/ Begin(e) \/ LockChain(e) \/ CommitEnvelope(e) \/ Abort(e)
    PROVE  DeliveryTypeOK'
<1>1. tx[e] \in TxRow /\ TenantOf[e] \in Tenant /\ Len(audit[TenantOf[e]]) \in Nat
  BY DEF DeliveryTypeOK, DeliveryAssumption
<1>2. CASE Begin(e)
  <2>1. tx' = [tx EXCEPT ![e] = [tx[e] EXCEPT !.pc = "open", !.stamp = clock + 1]]
    BY <1>2 DEF Begin, DeliveryTypeOK
  <2>2. tx' \in [Event -> TxRow]
    <3>1. clock + 1 \in Nat
      BY DEF DeliveryTypeOK
    <3>2. [tx[e] EXCEPT !.pc = "open", !.stamp = clock + 1] \in TxRow
      BY <1>1, <3>1, TxRows
    <3>3. QED
      BY <2>1, <3>2 DEF DeliveryTypeOK
  <2>3. QED
    BY <1>2, <2>2 DEF Begin, DeliveryTypeOK, consumption
<1>3. CASE LockChain(e)
  BY <1>1, <1>3, TxRows DEF LockChain, DeliveryTypeOK, consumption
<1>4. CASE CommitEnvelope(e)
  BY <1>1, <1>4, TxRows DEF CommitEnvelope, DeliveryTypeOK, consumption
<1>5. CASE Abort(e)
  <2>1. tx' \in [Event -> TxRow]
    BY <1>5, TxRows DEF Abort, DeliveryTypeOK
  <2>2. QED
    BY <1>5, <2>1 DEF Abort, Failure, DeliveryTypeOK, consumption, DeliveryAssumption
<1>6. QED
  BY <1>2, <1>3, <1>4, <1>5

\* What a fact adds to the chain of its tenant.
LEMMA Extended ==
    ASSUME DeliveryTypeOK, OneAppends, NEW f \in Event, tx[f].pc = "appending", SequenceFree(f)
    PROVE  /\ f \in Fact /\ TenantOf[f] \in Tenant
           /\ Chained(f, audit[TenantOf[f]], tx[f].last)
                \in ChainEntry
<1> DEFINE chain == audit[TenantOf[f]]
<1>1. f \in Fact /\ TenantOf[f] \in Tenant
  BY DEF OneAppends, DeliveryAssumption
<1>2. chain \in Seq(ChainEntry)
  BY <1>1 DEF DeliveryTypeOK
<1>3. tx[f].last = Len(chain) /\ tx[f].last \in Nat
  BY <1>2 DEF SequenceFree
<1>4. tx[f].last # 0 => chain[tx[f].last] \in ChainEntry
  BY <1>2, <1>3
<1>5. QED
  BY <1>1, <1>3, <1>4 DEF Chained, Genesis, ChainEntry

\* A transaction with an audit entry.
LEMMA FactTyped ==
    ASSUME DeliveryTypeOK, OneAppends, NEW f \in Event, CommitFact(f)
    PROVE  DeliveryTypeOK'
<1>1. CASE SequenceFree(f)
  <2> DEFINE t == TenantOf[f]
             new == Chained(f, audit[t], tx[f].last)
  <2>1. new \in ChainEntry /\ t \in Tenant
    BY <1>1, Extended DEF CommitFact
  <2>2. audit' = [audit EXCEPT ![t] = Append(audit[t], new)]
    BY <1>1 DEF CommitFact
  <2>3. audit[t] \in Seq(ChainEntry)
    BY <2>1 DEF DeliveryTypeOK
  <2>4. audit' \in [Tenant -> Seq(ChainEntry)]
    <3> HIDE DEF new, t
    <3> QED BY <2>1, <2>2, <2>3 DEF DeliveryTypeOK
  <2>5. tx' = [tx EXCEPT ![f] = [tx[f] EXCEPT !.pc = "committed", !.last = 0]]
    BY <1>1 DEF CommitFact, DeliveryTypeOK
  <2>6. tx' \in [Event -> TxRow]
    BY <2>5, TxRows DEF DeliveryTypeOK
  <2>7. QED
    BY <1>1, <2>4, <2>6 DEF CommitFact, DeliveryTypeOK, consumption
<1>2. CASE ~SequenceFree(f)
  <2>1. tx' \in [Event -> TxRow]
    BY <1>2, TxRows DEF CommitFact, DeliveryTypeOK
  <2>2. QED
    BY <1>2, <2>1 DEF CommitFact, DeliveryTypeOK, consumption
<1>3. QED
  BY <1>1, <1>2

\* A relay.
LEMMA RelayTyped ==
    ASSUME DeliveryTypeOK, NEW r \in Relay, RelayStep(r) \/ PublishFails(r) \/ RelayDies(r)
    PROVE  DeliveryTypeOK'
<1> USE DEF business, consumption
<1>1. relay[r] \in PollRow /\ relay[r].rows \in Seq(Event) /\ relay[r].marked \subseteq Envelope
  BY DEF DeliveryTypeOK, PollRow
<1>2. CASE PollOutbox(r)
  <2>1. PICK rows \in OldestFirst(Pending) :
          relay' = [relay EXCEPT ![r] = [pc |-> "polling", rows |-> rows, marked |-> {}]]
    BY <1>2 DEF PollOutbox
  <2>2. rows \in Seq(Event)
    BY OldestAreRows DEF Pending, DeliveryTypeOK
  <2>3. relay' \in [Relay -> PollRow]
    BY <2>1, <2>2, PollRows DEF DeliveryTypeOK
  <2>4. QED
    BY <1>2, <2>3 DEF PollOutbox, DeliveryTypeOK
<1>3. ASSUME relay' = [relay EXCEPT ![r] = IdleRelay] PROVE relay' \in [Relay -> PollRow]
  BY <1>3, PollRows DEF DeliveryTypeOK
<1>4. CASE PollRaises(r)
  BY <1>3, <1>4 DEF PollRaises, DeliveryTypeOK
<1>5. ASSUME relay[r].rows # <<>>, Head1(r) \notin Fact
      PROVE  Head1(r) \in Envelope /\ Rest(r) \in Seq(Event)
  BY <1>1, <1>5 DEF Head1, Rest, Event
<1>6. CASE Publish(r)
  <2>1. Head1(r) \in Envelope /\ Rest(r) \in Seq(Event)
    BY <1>5, <1>6 DEF Publish
  <2>2. relay' = [relay EXCEPT ![r] =
                   [relay[r] EXCEPT !.rows = Rest(r), !.marked = @ \cup {Head1(r)}]]
    BY <1>6 DEF Publish, DeliveryTypeOK
  <2>3. relay' \in [Relay -> PollRow]
    BY <1>1, <2>1, <2>2, PollRows DEF DeliveryTypeOK
  <2>4. QED
    BY <1>6, <2>1, <2>3 DEF Publish, DeliveryTypeOK
<1>7. CASE PublishFails(r)
  <2>1. Head1(r) \in Envelope /\ Rest(r) \in Seq(Event)
    BY <1>5, <1>7 DEF PublishFails
  <2>2. relay' \in [Relay -> PollRow]
    BY <1>1, <1>7, <2>1, PollRows DEF PublishFails, DeliveryTypeOK
  <2>3. QED
    BY <1>7, <2>1, <2>2 DEF PublishFails, Failure, DeliveryTypeOK, DeliveryAssumption
<1>8. CASE CommitPoll(r)
  BY <1>1, <1>3, <1>8 DEF CommitPoll, DeliveryTypeOK
<1>9. CASE RelayDies(r)
  BY <1>3, <1>9 DEF RelayDies, Failure, DeliveryTypeOK, DeliveryAssumption
<1>10. QED
  BY <1>2, <1>4, <1>6, <1>7, <1>8, <1>9 DEF RelayStep

\* A consumer.
LEMMA ConsumerTyped ==
    ASSUME DeliveryTypeOK, FlowInv, NEW c \in Consumer, ConsumerStep(c) \/ ReceiptLost(c)
    PROVE  DeliveryTypeOK'
<1> USE DEF Delivering, business
<1>1. ASSUME NEW x \in ReceiptRow, consumer' = [consumer EXCEPT ![c] = x]
      PROVE  consumer' \in [Consumer -> ReceiptRow]
  BY <1>1 DEF DeliveryTypeOK
<1>2. ASSUME NEW e \in Envelope, Receive(c, e) PROVE DeliveryTypeOK'
  BY <1>1, <1>2, ReceiptRows DEF Receive, DeliveryTypeOK
<1>3. CASE Reserve(c)
  <2>1. consumer[c] \in ReceiptRow
    BY DEF DeliveryTypeOK
  <2>2. consumer' \in [Consumer -> ReceiptRow]
    BY <1>1, <1>3, <2>1, ReceiptRows DEF Reserve, Holding
  <2>3. QED
    BY <1>3, <2>2 DEF Reserve, DeliveryTypeOK
<1>4. CASE Handle(c)
  <2>1. consumer[c].event \in Envelope
    BY <1>4 DEF Handle, FlowInv, ConsumerHolds, DeliveryTypeOK
  <2>2. applied' \in Seq(Envelope)
    BY <1>4, <2>1 DEF Handle, DeliveryTypeOK
  <2>3. consumer' = [consumer EXCEPT ![c] = [consumer[c] EXCEPT !.pc = "handled"]]
    BY <1>4 DEF Handle, DeliveryTypeOK
  <2>4. consumer' \in [Consumer -> ReceiptRow]
    BY <1>1, <2>3, ReceiptRows DEF DeliveryTypeOK, Holding
  <2>5. QED
    BY <1>4, <2>2, <2>4 DEF Handle, DeliveryTypeOK
<1>5. CASE CommitReceipt(c)
  <2>1. consumer[c].event \in Envelope
    BY <1>5 DEF CommitReceipt, FlowInv, ConsumerHolds, DeliveryTypeOK
  <2>2. consumer' \in [Consumer -> ReceiptRow]
    BY <1>1, <1>5, ReceiptRows DEF CommitReceipt
  <2>3. QED
    BY <1>5, <2>1, <2>2 DEF CommitReceipt, DeliveryTypeOK
<1>6. CASE ReceiptLost(c)
  <2>1. consumer' \in [Consumer -> ReceiptRow]
    BY <1>1, <1>6, ReceiptRows DEF ReceiptLost
  <2>2. QED
    BY <1>6, <2>1 DEF ReceiptLost, Failure, DeliveryTypeOK, DeliveryAssumption
<1>7. QED
  BY <1>2, <1>3, <1>4, <1>5, <1>6 DEF ConsumerStep

-----------------------------------------------------------------------------
(* The audit chain.                                                         *)

\* A chain that verifies still does when an event is chained to its end.
LEMMA ChainGrows ==
    ASSUME NEW chain \in Seq(ChainEntry),
           VerifyAuditChain(chain), NEW f
    PROVE  VerifyAuditChain(Append(chain, Chained(f, chain, Len(chain))))
<1> DEFINE n == Len(chain) + 1
           longer == Append(chain, Chained(f, chain, Len(chain)))
<1>1. SUFFICES ASSUME NEW i \in DOMAIN longer
               PROVE  /\ longer[i].sequence = i
                      /\ longer[i].previous = IF i = 1 THEN Genesis ELSE longer[i - 1].event
  BY DEF VerifyAuditChain
<1>2. i \in 1..n /\ Len(chain) \in Nat
  OBVIOUS
<1>3. CASE i = n
  <2>1. longer[i] = Chained(f, chain, Len(chain))
    BY <1>3
  <2>2. i # 1 => longer[i - 1] = chain[Len(chain)]
    BY <1>2, <1>3
  <2>3. QED
    BY <1>2, <1>3, <2>1, <2>2 DEF Chained
<1>4. CASE i # n
  <2>1. i \in DOMAIN chain /\ longer[i] = chain[i]
    BY <1>2, <1>4
  <2>2. i # 1 => longer[i - 1] = chain[i - 1]
    BY <1>2, <1>4
  <2>3. QED
    BY <2>1, <2>2 DEF VerifyAuditChain
<1>5. QED
  BY <1>3, <1>4

\* Until the commit a transaction adds nothing to a chain.
LEMMA ChainBegins ==
    ASSUME DeliveryTypeOK, ChainInv, NEW e \in Event,
           Begin(e) \/ CommitEnvelope(e) \/ Abort(e) \/ LockChain(e)
    PROVE  ChainInv'
<1>1. CASE Begin(e)
  BY <1>1 DEF Begin, ChainInv, OneAppends, ChainIsLinear, SequenceFree, DeliveryTypeOK, Event
<1>2. CASE CommitEnvelope(e)
  BY <1>2 DEF CommitEnvelope, ChainInv, OneAppends, ChainIsLinear, SequenceFree, DeliveryTypeOK, Event
<1>3. CASE Abort(e)
  BY <1>3 DEF Abort, NoTx, ChainInv, OneAppends, ChainIsLinear, SequenceFree, DeliveryTypeOK, Event
<1>4. CASE LockChain(e)
  BY <1>4 DEF LockChain, LockFree, ChainInv, OneAppends, ChainIsLinear, SequenceFree, DeliveryTypeOK,
     Event
<1>5. QED
  BY <1>1, <1>2, <1>3, <1>4

\* A commit chains one event to the last one its transaction saw, which is still the last.
LEMMA ChainCommits ==
    ASSUME DeliveryTypeOK, ChainInv, NEW f \in Event, CommitFact(f)
    PROVE  ChainInv'
<1> DEFINE t == TenantOf[f]
<1>1. f \in Fact /\ t \in Tenant /\ tx[f].pc = "appending"
  BY DEF CommitFact, ChainInv, OneAppends, DeliveryAssumption
<1>2. SequenceFree(f)
  BY <1>1 DEF ChainInv, ChainIsLinear
<1>3. /\ audit' = [audit EXCEPT ![t] = Append(audit[t], Chained(f, audit[t], Len(audit[t])))]
      /\ tx' = [tx EXCEPT ![f].pc = "committed", ![f].last = 0]
  BY <1>2 DEF CommitFact, SequenceFree
<1>4. \A e \in Event : tx'[e].pc = "appending" =>
        e # f /\ tx[e].pc = "appending" /\ tx'[e] = tx[e]
  BY <1>3 DEF DeliveryTypeOK
<1>5. OneAppends'
  BY <1>4 DEF ChainInv, OneAppends, Event
<1>6. \A s \in Tenant : VerifyAuditChain(audit'[s])
  <2>1. audit[t] \in Seq(ChainEntry)
    BY <1>1 DEF DeliveryTypeOK
  <2>2. VerifyAuditChain(audit[t])
    BY <1>1 DEF ChainInv, ChainIsLinear
  <2>3. VerifyAuditChain(Append(audit[t], Chained(f, audit[t], Len(audit[t]))))
    BY <2>1, <2>2, ChainGrows
  <2>4. \A s \in Tenant :
          audit'[s] = IF s = t THEN Append(audit[t], Chained(f, audit[t], Len(audit[t])))
                               ELSE audit[s]
    BY <1>3 DEF DeliveryTypeOK
  <2>5. QED
    BY <2>3, <2>4 DEF ChainInv, ChainIsLinear
<1>7. \A g \in Fact : tx'[g].pc = "appending" => SequenceFree(g)'
  <2> SUFFICES ASSUME NEW g \in Fact, tx'[g].pc = "appending"
               PROVE  SequenceFree(g)'
    OBVIOUS
  <2>1. g # f /\ tx[g].pc = "appending" /\ tx'[g] = tx[g]
    BY <1>4 DEF Event
  <2>2. TenantOf[g] # t
    BY <1>1, <2>1 DEF ChainInv, OneAppends
  <2>3. audit'[TenantOf[g]] = audit[TenantOf[g]]
    BY <1>3, <2>2 DEF DeliveryTypeOK, DeliveryAssumption, Event
  <2>4. QED
    BY <2>1, <2>3 DEF SequenceFree, ChainInv, ChainIsLinear
<1>8. QED
  BY <1>5, <1>6, <1>7 DEF ChainInv, ChainIsLinear

\* Relays and consumers leave the chains alone.
LEMMA ChainRests ==
    ASSUME ChainInv, UNCHANGED <<tx, audit>>
    PROVE  ChainInv'
BY DEF ChainInv, OneAppends, ChainIsLinear, SequenceFree

-----------------------------------------------------------------------------
(* From the outbox to the handlers.                                         *)

\* A transaction moves nothing but its own event, and that into the outbox.
LEMMA FlowSends ==
    ASSUME DeliveryTypeOK, OneAppends, FlowInv, NEW e \in Event,
           Begin(e) \/ LockChain(e) \/ CommitFact(e) \/ CommitEnvelope(e) \/ Abort(e)
    PROVE  FlowInv'
<1>1. e \notin outbox
  BY DEF FlowInv, Begin, LockChain, CommitFact, CommitEnvelope, Abort
<1>2. UNCHANGED <<relay, channel, publishedRows, consumer, inbox>>
  BY DEF Begin, LockChain, CommitFact, CommitEnvelope, Abort, consumption
<1>3. outbox \subseteq outbox' /\ \A x \in outbox' \ outbox : tx'[x].pc = "committed"
  BY DEF Begin, LockChain, CommitFact, CommitEnvelope, Abort, DeliveryTypeOK, TxRow
<1>4. \A x \in Event \ {e} : tx'[x] = tx[x]
  BY DEF Begin, LockChain, CommitFact, CommitEnvelope, Abort, DeliveryTypeOK
<1>5. \A x \in outbox' : tx'[x].pc = "committed"
  BY <1>1, <1>3, <1>4 DEF FlowInv, DeliveryTypeOK
<1>6. QED
  BY <1>2, <1>3, <1>5 DEF FlowInv, RelayHolds, ConsumerHolds, OneReservation

\* A relay holds rows of the outbox and publishes nothing else.
LEMMA FlowRelays ==
    ASSUME DeliveryTypeOK, FlowInv, NEW r \in Relay,
           RelayStep(r) \/ PublishFails(r) \/ RelayDies(r)
    PROVE  FlowInv'
<1> USE DEF business, consumption
<1>1. UNCHANGED <<tx, outbox, consumer, inbox>>
  BY DEF RelayStep, PollOutbox, PollRaises, Publish, PublishFails, CommitPoll, RelayDies
<1>2. relay[r].rows \in Seq(Event)
  BY DEF DeliveryTypeOK, PollRow
<1>3. channel \subseteq channel' /\ channel' \subseteq outbox
  <2>1. relay[r].rows # <<>> => Head1(r) \in outbox
    BY <1>2 DEF Head1, FlowInv, RelayHolds
  <2>2. QED
    BY <2>1 DEF FlowInv, RelayStep, PollOutbox, PollRaises, Publish, PublishFails, CommitPoll, RelayDies
<1>4. \A o \in Relay : RelayHolds(o)'
  <2>1. \A o \in Relay \ {r} : relay'[o] = relay[o]
    BY DEF RelayStep, PollOutbox, PollRaises, Publish, PublishFails, CommitPoll, RelayDies,
       DeliveryTypeOK
  <2>2. RelayHolds(r)'
    <3>1. CASE PollOutbox(r)
      <4>1. PICK rows \in OldestFirst(Pending) :
              relay' = [relay EXCEPT ![r] = [pc |-> "polling", rows |-> rows, marked |-> {}]]
        BY <3>1 DEF PollOutbox
      <4>2. relay'[r].rows = rows /\ relay'[r].marked = {}
        BY <4>1 DEF DeliveryTypeOK
      <4>3. rows \in Seq(Pending)
        BY OldestAreRows
      <4>4. QED
        BY <1>1, <4>2, <4>3 DEF Pending, RelayHolds
    <3>2. CASE relay'[r] = IdleRelay
      BY <3>2 DEF IdleRelay, RelayHolds
    <3>3. CASE /\ relay[r].rows # <<>> /\ relay'[r].rows = Rest(r)
               /\ relay'[r].marked \subseteq channel'
      BY <1>1, <1>2, <3>3 DEF Rest, FlowInv, RelayHolds
    <3>4. CASE Publish(r)
      <4>1. /\ relay'[r].rows = Rest(r) /\ relay'[r].marked = relay[r].marked \cup {Head1(r)}
            /\ channel' = channel \cup {Head1(r)} /\ relay[r].rows # <<>>
        BY <3>4 DEF Publish, DeliveryTypeOK, PollRow
      <4>2. QED
        BY <3>3, <4>1 DEF FlowInv, RelayHolds
    <3>5. CASE PublishFails(r)
      <4>1. /\ relay'[r].rows = Rest(r) /\ relay'[r].marked = relay[r].marked
            /\ relay[r].rows # <<>>
        BY <3>5 DEF PublishFails, DeliveryTypeOK, PollRow
      <4>2. QED
        BY <1>3, <3>3, <4>1 DEF FlowInv, RelayHolds
    <3>6. QED
      BY <3>1, <3>2, <3>4, <3>5 DEF RelayStep, PollRaises, CommitPoll, RelayDies, DeliveryTypeOK
  <2>3. QED
    BY <1>1, <1>3, <2>1, <2>2 DEF FlowInv, RelayHolds
<1>5. publishedRows' \subseteq channel'
  BY <1>3 DEF FlowInv, RelayHolds, RelayStep, PollOutbox, PollRaises, Publish, PublishFails, CommitPoll,
     RelayDies
<1>6. QED
  BY <1>1, <1>3, <1>4, <1>5 DEF FlowInv, ConsumerHolds, OneReservation

\* A message is reserved by one consumer, and only before its slot is committed.
LEMMA FlowReceives ==
    ASSUME DeliveryTypeOK, FlowInv, NEW c \in Consumer, ConsumerStep(c) \/ ReceiptLost(c)
    PROVE  FlowInv'
<1> USE DEF Delivering, business
<1>1. UNCHANGED <<tx, outbox, relay, channel, publishedRows>>
  BY DEF ConsumerStep, Receive, Reserve, Handle, CommitReceipt, ReceiptLost
<1>2. \A o \in Consumer \ {c} : consumer'[o] = consumer[o]
  BY DEF ConsumerStep, Receive, Reserve, Handle, CommitReceipt, ReceiptLost, DeliveryTypeOK
<1>3. ASSUME UNCHANGED inbox, ConsumerHolds(c)',
             \A o \in Consumer \ {c} : ~(/\ consumer'[c].pc \in Holding /\ consumer[o].pc \in Holding
                                          /\ consumer'[c].event = consumer[o].event)
      PROVE  FlowInv'
  <2>1. \A o \in Consumer : ConsumerHolds(o)'
    BY <1>1, <1>2, <1>3 DEF FlowInv, ConsumerHolds
  <2>2. OneReservation'
    BY <1>2, <1>3 DEF FlowInv, OneReservation
  <2>3. QED
    BY <1>1, <1>3, <2>1, <2>2 DEF FlowInv, RelayHolds
<1>4. CASE consumer' = [consumer EXCEPT ![c] = IdleConsumer] /\ UNCHANGED inbox
  BY <1>3, <1>4 DEF IdleConsumer, ConsumerHolds, Holding, DeliveryTypeOK
<1>5. ASSUME NEW e \in Envelope, Receive(c, e) PROVE FlowInv'
  BY <1>3, <1>5 DEF Receive, ConsumerHolds, Holding, DeliveryTypeOK
<1>6. CASE Reserve(c)
  <2>1. CASE consumer[c].event \in inbox
    BY <1>4, <1>6, <2>1 DEF Reserve
  <2>2. CASE consumer[c].event \notin inbox
    <3>1. consumer'[c].pc = "reserved" /\ consumer'[c].event = consumer[c].event
      BY <1>6, <2>2 DEF Reserve, DeliveryTypeOK, ReceiptRow
    <3>2. ConsumerHolds(c)'
      BY <1>6, <2>2, <3>1 DEF Reserve, FlowInv, ConsumerHolds
    <3>3. QED
      BY <1>3, <1>6, <3>1, <3>2 DEF Reserve, SlotAvailable
  <2>3. QED
    BY <2>1, <2>2
<1>7. CASE Handle(c)
  <2>1. /\ consumer[c].pc = "reserved" /\ consumer'[c].pc = "handled"
        /\ consumer'[c].event = consumer[c].event
    BY <1>7 DEF Handle, DeliveryTypeOK, ReceiptRow
  <2>2. ConsumerHolds(c)'
    BY <1>7, <2>1 DEF Handle, FlowInv, ConsumerHolds, Holding
  <2>3. QED
    BY <1>3, <1>7, <2>1, <2>2 DEF Handle, FlowInv, OneReservation, Holding
<1>8. CASE CommitReceipt(c)
  <2>1. /\ inbox' = inbox \cup {consumer[c].event}
        /\ consumer'[c].pc = "idle" /\ consumer[c].pc \in Holding
    BY <1>8 DEF CommitReceipt, IdleConsumer, Holding, DeliveryTypeOK
  <2>2. \A o \in Consumer : ConsumerHolds(o)'
    BY <1>1, <1>2, <2>1 DEF FlowInv, ConsumerHolds, OneReservation, Holding
  <2>3. OneReservation'
    BY <1>2, <2>1 DEF FlowInv, OneReservation, Holding
  <2>4. QED
    BY <1>1, <2>2, <2>3 DEF FlowInv, RelayHolds
<1>9. CASE ReceiptLost(c)
  BY <1>4, <1>9 DEF ReceiptLost
<1>10. QED
  BY <1>5, <1>6, <1>7, <1>8, <1>9 DEF ConsumerStep

-----------------------------------------------------------------------------
LEMMA DeliveryKept ==
    ASSUME DeliveryInv, [DeliveryNext]_deliveryVars
    PROVE  DeliveryInv'
<1> USE DEF DeliveryInv
<1>1. ASSUME NEW e \in Event,
             Begin(e) \/ LockChain(e) \/ CommitFact(e) \/ CommitEnvelope(e) \/ Abort(e)
      PROVE  DeliveryInv'
  <2>1. DeliveryTypeOK' /\ ChainInv'
    BY <1>1, BusinessTyped, FactTyped, ChainBegins, ChainCommits DEF ChainInv
  <2>2. QED
    BY <1>1, <2>1, FlowSends DEF ChainInv
<1>2. ASSUME NEW r \in Relay, RelayStep(r) \/ PublishFails(r) \/ RelayDies(r) PROVE DeliveryInv'
  <2>1. UNCHANGED <<tx, audit>>
    BY <1>2 DEF RelayStep, PollOutbox, PollRaises, Publish, PublishFails, CommitPoll, RelayDies,
       business
  <2>2. QED
    BY <1>2, <2>1, RelayTyped, FlowRelays, ChainRests
<1>3. ASSUME NEW c \in Consumer, ConsumerStep(c) \/ ReceiptLost(c) PROVE DeliveryInv'
  <2>1. UNCHANGED <<tx, audit>>
    BY <1>3 DEF ConsumerStep, Receive, Reserve, Handle, CommitReceipt, ReceiptLost, Delivering, business
  <2>2. QED
    BY <1>3, <2>1, ConsumerTyped, FlowReceives, ChainRests
<1>4. CASE UNCHANGED deliveryVars
  BY <1>4 DEF deliveryVars, DeliveryTypeOK, ChainInv, OneAppends, ChainIsLinear, SequenceFree, FlowInv,
     RelayHolds, ConsumerHolds, OneReservation
<1>5. QED
  BY <1>1, <1>2, <1>3, <1>4 DEF DeliveryNext

LEMMA DeliveryInductive ==
    DeliverySpec => []DeliveryInv
<1>1. DeliveryInv /\ [DeliveryNext]_deliveryVars => DeliveryInv'
  BY DeliveryKept
<1>2. DeliveryInit => DeliveryInv
  BY DeliveryInitInv
<1>3. QED
  BY <1>1, <1>2, PTL DEF DeliverySpec

\* Transactions, chains, outbox, relays and inbox are well typed whatever the number of facts,
\* envelopes, tenants, relays and consumers.
THEOREM DeliveryTypeCorrect ==
    DeliverySpec => []DeliveryTypeOK
<1>1. DeliveryInv => DeliveryTypeOK
  BY DEF DeliveryInv
<1>2. QED
  BY <1>1, DeliveryInductive, PTL

\* The audit chain of a tenant verifies (verify_audit_chain) although any number of transactions
\* append to it: append_audit takes the tenant's advisory lock before it reads the last entry.
THEOREM ChainsAreLinear ==
    DeliverySpec => []ChainIsLinear
<1>1. DeliveryInv => ChainIsLinear
  BY DEF DeliveryInv, ChainInv
<1>2. QED
  BY <1>1, DeliveryInductive, PTL

-----------------------------------------------------------------------------
(* Refinement.                                                              *)
\* The state of Delivery that a step leaves or changes.
seen == <<outbox \cap Envelope, channel, publishedRows, applied, InHand, inbox>>

\* A business transaction that commits an envelope sends it.
LEMMA BusinessSends ==
    ASSUME DeliveryInv, NEW e \in Event,
           Begin(e) \/ LockChain(e) \/ CommitFact(e) \/ CommitEnvelope(e) \/ Abort(e)
    PROVE  [Promise!Next]_seen
<1>1. UNCHANGED <<channel, publishedRows, consumer, inbox, applied>>
  BY DEF Begin, LockChain, CommitFact, CommitEnvelope, Abort, consumption
<1>2. UNCHANGED <<channel, publishedRows, applied, InHand, inbox>>
  BY <1>1 DEF InHand
<1>3. CASE CommitEnvelope(e)
  <2>1. e \in Envelope /\ e \notin outbox \cap Envelope
    BY <1>3 DEF CommitEnvelope, DeliveryInv, FlowInv
  <2>2. (outbox \cap Envelope)' = (outbox \cap Envelope) \cup {e}
    BY <1>3, <2>1 DEF CommitEnvelope
  <2>3. QED
    BY <1>2, <2>1, <2>2 DEF Promise!Next, Promise!Send
<1>4. CASE CommitFact(e)
  <2>1. e \in Fact /\ outbox' \in {outbox, outbox \cup {e}}
    BY <1>4 DEF CommitFact, DeliveryInv, ChainInv, OneAppends
  <2>2. (outbox \cap Envelope)' = outbox \cap Envelope
    BY <2>1 DEF DeliveryAssumption
  <2>3. QED
    BY <1>2, <2>2 DEF seen
<1>5. CASE Begin(e) \/ LockChain(e) \/ Abort(e)
  <2>1. UNCHANGED outbox
    BY <1>5 DEF Begin, LockChain, Abort
  <2>2. QED
    BY <1>2, <2>1 DEF seen
<1>6. QED
  BY <1>3, <1>4, <1>5

\* A relay makes the channel accept what was sent, and settles what was accepted.
LEMMA RelayAccepts ==
    ASSUME DeliveryInv, NEW r \in Relay, RelayStep(r) \/ PublishFails(r) \/ RelayDies(r)
    PROVE  [Promise!Next]_seen
<1> USE DEF business, consumption
<1>1. UNCHANGED <<outbox, consumer, inbox, applied>>
  BY DEF RelayStep, PollOutbox, PollRaises, Publish, PublishFails, CommitPoll, RelayDies
<1>2. UNCHANGED <<outbox \cap Envelope, applied, InHand, inbox>>
  BY <1>1 DEF InHand
<1>3. CASE Publish(r) \/ PublishFails(r)
  <2>1. relay[r].rows \in Seq(Event) /\ relay[r].rows # <<>> /\ Head1(r) \notin Fact
    BY <1>3 DEF Publish, PublishFails, DeliveryInv, DeliveryTypeOK, PollRow
  <2>2. Head1(r) \in outbox \cap Envelope
    BY <2>1 DEF Head1, DeliveryInv, FlowInv, RelayHolds, Event
  <2>3. channel' = channel \/ channel' = channel \cup {Head1(r)}
    BY <1>3 DEF Publish, PublishFails
  <2>4. UNCHANGED publishedRows
    BY <1>3 DEF Publish, PublishFails
  <2>5. CASE channel' = channel
    BY <1>2, <2>4, <2>5 DEF seen
  <2>6. CASE channel' = channel \cup {Head1(r)}
    BY <1>2, <2>2, <2>4, <2>6 DEF Promise!Next, Promise!Accept
  <2>7. QED
    BY <2>3, <2>5, <2>6
<1>4. CASE CommitPoll(r)
  <2>1. publishedRows \subseteq publishedRows' /\ publishedRows' \subseteq channel
    BY <1>4 DEF CommitPoll, DeliveryInv, FlowInv, RelayHolds
  <2>2. UNCHANGED channel
    BY <1>4 DEF CommitPoll
  <2>3. QED
    BY <1>2, <2>1, <2>2 DEF Promise!Next, Promise!Settle
<1>5. CASE PollOutbox(r) \/ PollRaises(r) \/ RelayDies(r)
  <2>1. UNCHANGED <<channel, publishedRows>>
    BY <1>5 DEF PollOutbox, PollRaises, RelayDies
  <2>2. QED
    BY <1>2, <2>1 DEF seen
<1>6. QED
  BY <1>3, <1>4, <1>5 DEF RelayStep

\* What is in hand when one consumer moves on.
LEMMA HandChanges ==
    ASSUME DeliveryInv, NEW c \in Consumer, NEW x \in ReceiptRow,
           consumer' = [consumer EXCEPT ![c] = x]
    PROVE  /\ x.pc = "handled" => InHand' = InHand \cup {x.event} \/ consumer[c].pc = "handled"
           /\ x.pc # "handled" /\ consumer[c].pc # "handled" => InHand' = InHand
           /\ x.pc # "handled" /\ consumer[c].pc = "handled"
                 => InHand' = InHand \ {consumer[c].event}
<1>1. /\ consumer'[c] = x
      /\ \A o \in Consumer \ {c} : consumer'[o] = consumer[o]
  BY DEF DeliveryInv, DeliveryTypeOK
<1>2. \A o \in Consumer \ {c} : /\ consumer[o].pc = "handled" /\ consumer[c].pc = "handled"
                                 => consumer[o].event # consumer[c].event
  BY DEF DeliveryInv, FlowInv, OneReservation, Holding
<1>3. ASSUME x.pc = "handled", consumer[c].pc # "handled" PROVE InHand' = InHand \cup {x.event}
  BY <1>1, <1>3 DEF InHand
<1>4. ASSUME x.pc # "handled", consumer[c].pc # "handled" PROVE InHand' = InHand
  BY <1>1, <1>4 DEF InHand
<1>5. ASSUME x.pc # "handled", consumer[c].pc = "handled"
      PROVE  InHand' = InHand \ {consumer[c].event}
  BY <1>1, <1>2, <1>5 DEF InHand
<1>6. QED
  BY <1>3, <1>4, <1>5

\* A consumer handles what is neither in hand nor known; then its receipt is kept or lost.
LEMMA ConsumerHandles ==
    ASSUME DeliveryInv, NEW c \in Consumer, ConsumerStep(c) \/ ReceiptLost(c)
    PROVE  [Promise!Next]_seen
<1> DEFINE e == consumer[c].event
<1>1. UNCHANGED <<outbox, channel, publishedRows>>
  BY DEF ConsumerStep, Receive, Reserve, Handle, CommitReceipt, ReceiptLost, Delivering, business
<1>2. UNCHANGED <<outbox \cap Envelope, channel, publishedRows>>
  BY <1>1
<1>3. consumer[c] \in ReceiptRow
  BY DEF DeliveryInv, DeliveryTypeOK
<1>4. consumer[c].pc \in Holding => e \in channel /\ e \in Envelope /\ e \notin inbox
  BY DEF Holding, DeliveryInv, DeliveryTypeOK, FlowInv, ConsumerHolds
<1>5. consumer[c].pc = "handled" => e \in InHand
  BY DEF InHand
<1>6. ASSUME NEW x \in ReceiptRow, consumer' = [consumer EXCEPT ![c] = x], x.pc # "handled",
             consumer[c].pc # "handled", UNCHANGED <<inbox, applied>>
      PROVE  UNCHANGED seen
  BY <1>2, <1>6, HandChanges DEF seen
<1>7. ASSUME NEW f \in Envelope, Receive(c, f) PROVE UNCHANGED seen
  <2> DEFINE x == [pc |-> "selected", event |-> f]
  <2>1. x \in ReceiptRow /\ x.pc # "handled"
    BY ReceiptRows
  <2>2. /\ consumer' = [consumer EXCEPT ![c] = x] /\ consumer[c].pc # "handled"
        /\ UNCHANGED <<inbox, applied>>
    BY <1>7 DEF Receive, IdleConsumer
  <2> HIDE DEF x
  <2>3. QED
    BY <1>6, <2>1, <2>2
<1>8. CASE Reserve(c)
  <2> DEFINE x == IF e \in inbox THEN IdleConsumer ELSE [consumer[c] EXCEPT !.pc = "reserved"]
  <2>1. x \in ReceiptRow /\ x.pc # "handled"
    BY <1>3, ReceiptRows DEF IdleConsumer, ReceiptRow, Holding
  <2>2. /\ consumer' = [consumer EXCEPT ![c] = x] /\ consumer[c].pc # "handled"
        /\ UNCHANGED <<inbox, applied>>
    BY <1>8 DEF Reserve
  <2> HIDE DEF x
  <2>3. QED
    BY <1>6, <2>1, <2>2
<1>9. CASE Handle(c)
  <2> DEFINE x == [consumer[c] EXCEPT !.pc = "handled"]
  <2>1. x \in ReceiptRow /\ x.pc = "handled" /\ x.event = e
    BY <1>3 DEF ReceiptRow
  <2>2. /\ consumer' = [consumer EXCEPT ![c] = x] /\ consumer[c].pc = "reserved"
        /\ applied' = Append(applied, e) /\ UNCHANGED inbox
    BY <1>9 DEF Handle, DeliveryInv, DeliveryTypeOK
  <2> HIDE DEF x
  <2>3. InHand' = InHand \cup {e}
    BY <2>1, <2>2, HandChanges
  <2>4. e \notin InHand
    BY <2>2 DEF InHand, DeliveryInv, FlowInv, OneReservation, Holding
  <2>5. e \in channel /\ e \in Envelope /\ e \notin inbox
    BY <1>4, <2>2 DEF Holding
  <2>6. QED
    BY <1>2, <2>2, <2>3, <2>4, <2>5 DEF Promise!Next, Promise!Handle
<1>10. IdleConsumer \in ReceiptRow /\ IdleConsumer.pc # "handled"
  BY ReceiptRows DEF IdleConsumer
<1>11. CASE CommitReceipt(c)
  <2>1. /\ consumer' = [consumer EXCEPT ![c] = IdleConsumer] /\ consumer[c].pc = "handled"
        /\ inbox' = inbox \cup {e} /\ UNCHANGED applied
    BY <1>11 DEF CommitReceipt
  <2>2. InHand' = InHand \ {e}
    BY <1>10, <2>1, HandChanges
  <2>3. e \in Envelope
    BY <1>4, <2>1 DEF Holding
  <2>4. QED
    BY <1>2, <1>5, <2>1, <2>2, <2>3 DEF Promise!Next, Promise!Know
<1>12. CASE ReceiptLost(c)
  <2>1. consumer' = [consumer EXCEPT ![c] = IdleConsumer] /\ UNCHANGED <<inbox, applied>>
    BY <1>12 DEF ReceiptLost
  <2>2. CASE consumer[c].pc # "handled"
    BY <1>6, <1>10, <2>1, <2>2
  <2>3. CASE consumer[c].pc = "handled"
    <3>1. InHand' = InHand \ {e}
      BY <1>10, <2>1, <2>3, HandChanges
    <3>2. e \in Envelope
      BY <1>4, <2>3 DEF Holding
    <3>3. QED
      BY <1>2, <1>5, <2>1, <2>3, <3>1, <3>2 DEF Promise!Next, Promise!Lose
  <2>4. QED
    BY <2>2, <2>3
<1>13. QED
  BY <1>7, <1>8, <1>9, <1>11, <1>12 DEF ConsumerStep

LEMMA DeliveryStep ==
    ASSUME DeliveryInv, [DeliveryNext]_deliveryVars
    PROVE  [Promise!Next]_seen
<1>1. CASE UNCHANGED deliveryVars
  BY <1>1 DEF deliveryVars, seen, InHand
<1>2. QED
  BY <1>1, BusinessSends, RelayAccepts, ConsumerHandles DEF DeliveryNext

\* However often relays publish a row and consumers receive it, a row is marked published only
\* if the channel has its message, and a handler acts again only on a message whose receipt was
\* lost after it acted: the outbox, the relays and the inbox implement Delivery, which is
\* delivery at least once with duplicates recognised.
THEOREM DeliveryRefined ==
    DeliverySpec => AtLeastOnce
<1>1. DeliveryInit => Promise!Init
  BY DEF DeliveryInit, Promise!Init, InHand, IdleConsumer
<1>2. DeliveryInv /\ [DeliveryNext]_deliveryVars => [Promise!Next]_(Promise!vars)
  BY DeliveryStep DEF seen, Promise!vars
<1>3. QED
  BY <1>1, <1>2, DeliveryInductive, PTL DEF DeliverySpec, AtLeastOnce, Promise!Spec
=============================================================================
