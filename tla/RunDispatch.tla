---------------------------- MODULE RunDispatch ----------------------------
(***************************************************************************)
(* From a requested Run to its durable workflow: the outbox event written  *)
(* with the Run, the polling dispatcher, the reconciler, and Temporal's    *)
(* fixed workflow ID with REJECT_DUPLICATE and USE_EXISTING.               *)
(*                                                                         *)
(* A dispatcher is a worker process that runs                              *)
(* run_dispatch_and_reconcile_loop.  Every await of the loop is a step:    *)
(* other processes, the API and the workflows move in between, and the     *)
(* process may die.  A process bound to a risk pool has a Temporal         *)
(* namespace of its own: it refuses to start, and does not see, the        *)
(* workflows of other pools.                                               *)
(*                                                                         *)
(* External: Temporal, and the workflow seen from outside - it moves its   *)
(* Run through the activities and closes, with its Run in any state.       *)
(***************************************************************************)
EXTENDS RunLifecycle, Naturals, FiniteSets, FiniteSetsExt

CONSTANTS
    Run,
    Dispatcher,      \* worker processes
    Serves,          \* [Dispatcher -> SUBSET Run], the Runs of the process's risk pool
    CreatedAt,       \* [Run -> Nat], created_at of the Run and of its event
    PollLimit,       \* events a poll reads
    ReconcileLimit,  \* Runs a reconciliation reads
    ReconcileEvery,  \* polls per reconciliation
    MaxFaults,       \* bound: crashes and failed calls to Temporal
    NoRun

ASSUME DispatchAssumption ==
    /\ Serves \in [Dispatcher -> SUBSET Run]
    /\ CreatedAt \in [Run -> Nat]
    /\ PollLimit \in Nat \ {0} /\ ReconcileLimit \in Nat \ {0} /\ ReconcileEvery \in Nat \ {0}
    /\ MaxFaults \in Nat
    /\ NoRun \notin Run

VARIABLES
    status,      \* runs: status, or "none" before the request
    published,   \* Runs whose request event has published_at set
    workflow,    \* Temporal: "none", "running" or "closed"
    executions,  \* history: workflow executions Temporal has started for the Run
    pc,          \* each process's next step
    todo,        \* rest of the batch it iterates over
    current,     \* the Run it is about to mark or to restart
    snapshot,    \* Run states the reconciliation read
    iteration,   \* polls since the last reconciliation
    faults       \* faults so far

loopVars == <<pc, todo, current, snapshot, iteration>>
vars == <<status, published, workflow, executions, loopVars, faults>>

Pcs == {"poll", "dispatch", "mark", "list", "observe", "restart"}
Unread == [r \in Run |-> "none"]

\* Every row and every process is in a state the code knows, within the loop's counters.
TypeOK ==
    /\ status \in [Run -> RunStatus \cup {"none"}]
    /\ published \subseteq Run
    /\ workflow \in [Run -> {"none", "running", "closed"}]
    /\ executions \in [Run -> Nat]
    /\ pc \in [Dispatcher -> Pcs]
    /\ todo \in [Dispatcher -> SUBSET Run]
    /\ current \in [Dispatcher -> Run \cup {NoRun}]
    /\ \A d \in Dispatcher : pc[d] \in {"mark", "restart"} => current[d] \in Run
    /\ snapshot \in [Dispatcher -> [Run -> RunStatus \cup {"none"}]]
    /\ iteration \in [Dispatcher -> 0..(ReconcileEvery - 1)]
    /\ faults \in 0..MaxFaults

Init ==
    /\ status = [r \in Run |-> "none"]
    /\ published = {}
    /\ workflow = [r \in Run |-> "none"]
    /\ executions = [r \in Run |-> 0]
    /\ pc = [d \in Dispatcher |-> "poll"]
    /\ todo = [d \in Dispatcher |-> {}]
    /\ current = [d \in Dispatcher |-> NoRun]
    /\ snapshot = [d \in Dispatcher |-> Unread]
    /\ iteration = [d \in Dispatcher |-> 0]
    /\ faults = 0

-----------------------------------------------------------------------------
(* The API and the workflow, each use case one transaction.                 *)

\* request_run: the Run and its event in one transaction.
RequestRun(r) ==
    /\ status[r] = "none"
    /\ status' = [status EXCEPT ![r] = "pending"]
    /\ UNCHANGED <<published, workflow, executions, loopVars, faults>>

MoveRun(r, target) ==
    /\ <<status[r], target>> \in RunTransitions
    /\ status' = [status EXCEPT ![r] = target]
    /\ UNCHANGED <<published, workflow, executions, loopVars, faults>>

\* The takeover and cancel endpoints.
OperatorMovesRun(r) == MoveRun(r, "cancelled") \/ MoveRun(r, "blocked")

\* The activities of a running workflow: prepare_run, evaluate_run, reject_run, cancel_run.
\* None of them resumes a blocked Run.
WorkflowMovesRun(r) ==
    /\ workflow[r] = "running"
    /\ \/ status[r] = "pending" /\ MoveRun(r, "running")
       \/ \E target \in {"awaiting_evidence", "succeeded", "failed", "cancelled"} :
            MoveRun(r, target)

\* The workflow returns or fails: taken over, rejected, or an activity out of attempts.
WorkflowCloses(r) ==
    /\ workflow[r] = "running"
    /\ workflow' = [workflow EXCEPT ![r] = "closed"]
    /\ UNCHANGED <<status, published, executions, loopVars, faults>>

-----------------------------------------------------------------------------
(* TemporalRunWorkflowControl.start.                                        *)

\* Mutant: a closed workflow does not reserve its ID.
StartsAnew(d, r) == r \in Serves[d]

\* The pool of the process, and the ID policies: a running workflow is used, a closed
\* one makes the start raise.
StartAccepted(d, r) == r \in Serves[d] /\ workflow[r] # "closed"

Launch(r) ==
    /\ workflow' = [workflow EXCEPT ![r] = "running"]
    /\ executions' = [executions EXCEPT ![r] = IF workflow[r] = "running" THEN @ ELSE @ + 1]

NotLaunched == UNCHANGED <<workflow, executions>>

Fault == faults < MaxFaults /\ faults' = faults + 1

\* start returns to its caller.
StartReturns(d, r) == StartAccepted(d, r) /\ Launch(r) /\ UNCHANGED faults

\* start raises: the process or Temporal refuses, the request is lost, or its answer is.
StartRaises(d, r) ==
    \/ ~StartAccepted(d, r) /\ NotLaunched /\ UNCHANGED faults
    \/ r \in Serves[d] /\ Fault /\ NotLaunched
    \/ StartAccepted(d, r) /\ Fault /\ Launch(r)

-----------------------------------------------------------------------------
(* RunWorkflowDispatcher.poll_once.                                         *)

\* The n oldest Runs of S.
OldestOf(S, n) == {r \in S : Cardinality({q \in S : CreatedAt[q] < CreatedAt[r]}) < n}

\* list_pending: one transaction, which also marks the events of terminal Runs.
Poll(d) ==
    LET rows == OldestOf({r \in Run : status[r] # "none"} \ published, PollLimit) IN
    /\ pc[d] = "poll"
    /\ pc' = [pc EXCEPT ![d] = "dispatch"]
    /\ todo' = [todo EXCEPT ![d] = {r \in rows : status[r] \notin RunTerminal}]
    /\ published' = published \cup {r \in rows : status[r] \in RunTerminal}
    /\ UNCHANGED <<status, workflow, executions, current, snapshot, iteration, faults>>

\* Mutant: the exception handler falls through to the mark.
MarkAnyway(d, r) == pc' = [pc EXCEPT ![d] = "mark"] /\ current' = [current EXCEPT ![d] = r]

\* A start that raised is skipped.
SkipEvent(d, r) == UNCHANGED <<pc, current>>

Dispatch(d) ==
    \E r \in OldestOf(todo[d], 1) :
        /\ pc[d] = "dispatch"
        /\ todo' = [todo EXCEPT ![d] = @ \ {r}]
        /\ \/ /\ StartReturns(d, r)
              /\ pc' = [pc EXCEPT ![d] = "mark"]
              /\ current' = [current EXCEPT ![d] = r]
           \/ StartRaises(d, r) /\ SkipEvent(d, r)
        /\ UNCHANGED <<status, published, snapshot, iteration>>

\* mark_dispatched.
Mark(d) ==
    /\ pc[d] = "mark"
    /\ published' = published \cup {current[d]}
    /\ pc' = [pc EXCEPT ![d] = "dispatch"]
    /\ current' = [current EXCEPT ![d] = NoRun]
    /\ UNCHANGED <<status, workflow, executions, todo, snapshot, iteration, faults>>

\* The batch is done: every ReconcileEvery-th time a reconciliation follows.
EndPoll(d) ==
    /\ pc[d] = "dispatch" /\ todo[d] = {}
    /\ iteration' = [iteration EXCEPT ![d] = (@ + 1) % ReconcileEvery]
    /\ pc' = [pc EXCEPT ![d] = IF iteration'[d] = 0 THEN "list" ELSE "poll"]
    /\ UNCHANGED <<status, published, workflow, executions, todo, current, snapshot, faults>>

-----------------------------------------------------------------------------
(* RunWorkflowReconciler.reconcile_once.                                    *)

\* list_reconciliation_runs: any ReconcileLimit Runs, in any order, terminal ones included.
List(d) ==
    LET rows == {r \in Run : status[r] # "none"} IN
    /\ pc[d] = "list"
    /\ \E batch \in SUBSET rows :
         /\ batch = rows \/ Cardinality(batch) = ReconcileLimit
         /\ Cardinality(batch) <= ReconcileLimit
         /\ todo' = [todo EXCEPT ![d] = batch]
         /\ snapshot' = [snapshot EXCEPT ![d] = [r \in Run |-> IF r \in batch THEN status[r]
                                                               ELSE "none"]]
    /\ pc' = [pc EXCEPT ![d] = "observe"]
    /\ UNCHANGED <<status, published, workflow, executions, current, iteration, faults>>

\* Mutant: only Runs that have begun are worth a workflow.
BegunStatuses == {"running", "awaiting_evidence"}

\* active_statuses.
WorthAWorkflow == {"pending", "running", "awaiting_evidence"}

\* What observe answers in the process's own namespace.
Missing(d, r) == r \notin Serves[d] \/ workflow[r] = "none"

\* Observes one Run of the batch.  Only a missing workflow of an active Run is acted on;
\* every other mismatch is a finding, which changes nothing.
Observe(d) ==
    \E r \in todo[d] :
        /\ pc[d] = "observe"
        /\ todo' = [todo EXCEPT ![d] = @ \ {r}]
        /\ snapshot' = [snapshot EXCEPT ![d][r] = "none"]
        /\ IF snapshot[d][r] \in WorthAWorkflow /\ Missing(d, r)
           THEN /\ pc' = [pc EXCEPT ![d] = "restart"]
                /\ current' = [current EXCEPT ![d] = r]
           ELSE UNCHANGED <<pc, current>>
        /\ UNCHANGED <<status, published, workflow, executions, iteration, faults>>

Restart(d) ==
    /\ pc[d] = "restart"
    /\ StartReturns(d, current[d]) \/ StartRaises(d, current[d])
    /\ pc' = [pc EXCEPT ![d] = "observe"]
    /\ current' = [current EXCEPT ![d] = NoRun]
    /\ UNCHANGED <<status, published, todo, snapshot, iteration>>

EndReconcile(d) ==
    /\ pc[d] = "observe" /\ todo[d] = {}
    /\ pc' = [pc EXCEPT ![d] = "poll"]
    /\ UNCHANGED <<status, published, workflow, executions, todo, current, snapshot, iteration,
                   faults>>

\* The process dies and is started again, or an exception that nothing catches (from the
\* database, or from observe) ends the loop and with it the process.
Crash(d) ==
    /\ Fault
    /\ pc' = [pc EXCEPT ![d] = "poll"]
    /\ todo' = [todo EXCEPT ![d] = {}]
    /\ current' = [current EXCEPT ![d] = NoRun]
    /\ snapshot' = [snapshot EXCEPT ![d] = Unread]
    /\ iteration' = [iteration EXCEPT ![d] = 0]
    /\ UNCHANGED <<status, published, workflow, executions>>

-----------------------------------------------------------------------------
Loop(d) == \/ Poll(d) \/ Dispatch(d) \/ Mark(d) \/ EndPoll(d)
           \/ List(d) \/ Observe(d) \/ Restart(d) \/ EndReconcile(d)

Surroundings(r) == RequestRun(r) \/ OperatorMovesRun(r) \/ WorkflowMovesRun(r) \/ WorkflowCloses(r)

Next == \/ \E d \in Dispatcher : Loop(d) \/ Crash(d)
        \/ \E r \in Run : Surroundings(r)

\* The loop never stops polling; nothing is assumed of operators and workflows.
Fairness == \A d \in Dispatcher : WF_vars(Loop(d))

Spec == Init /\ [][Next]_vars /\ Fairness

-----------------------------------------------------------------------------
(* Properties.                                                              *)

\* A Run never gets a second workflow execution, whatever polls and reconciliations of
\* however many processes race, repeat each other or act on stale snapshots: the fixed
\* workflow ID and REJECT_DUPLICATE of TemporalRunWorkflowControl.start.
OneExecution == \A r \in Run : executions[r] <= 1

\* An event is marked published only when its Run has a workflow or has ended (poll_once,
\* list_pending): a request is never dropped by a start that failed.
PublishedIsStarted ==
    \A r \in published : workflow[r] # "none" \/ status[r] \in RunTerminal

\* Every requested Run that some process serves gets a workflow unless it ends first, also
\* when its event is never among the oldest PollLimit because events of other pools stay
\* in front of it: the reconciler then starts it (reconcile_once).
RequestedGetsWorkflow ==
    \A r \in UNION {Serves[d] : d \in Dispatcher} :
        status[r] = "pending" ~> (workflow[r] # "none" \/ status[r] \in RunTerminal)
=============================================================================
